---- MODULE Spec2Model ----
(***************************************************************************)
(* A model of the sds dynamic string library (src/src/sds.c).              *)
(*                                                                         *)
(* A buffer is a record                                                    *)
(*    type   the header class stored in the flags byte s[-1]               *)
(*    len    the header's length field (class 5: the top 5 flag bits)      *)
(*    alloc  the header's capacity field (class 5 has none: kept 0)        *)
(*    buf    the bytes s[0], s[1], ... whose value is determined: the      *)
(*           content followed by the byte at index len.  Bytes further     *)
(*           on are spare or stale memory and are not tracked: whoever     *)
(*           exposes them supplies their value.                            *)
(*    blk    the size in bytes of the block obtained from the allocator    *)
(* Bytes are the integers 0..255.  Every operation is an operator that     *)
(* returns Res(ret, arg, fault): the returned handle (NULL on failure),    *)
(* what the handle passed in points to after the call (the same block,     *)
(* or FREED), and the fault the call ran into, if any.                     *)
(***************************************************************************)
EXTENDS Integers, Sequences, FiniteSets, TLC

\* ------------------------------------------------------------------ bounds
\* Width in bits given to long long and unsigned long long; int and unsigned
\* int have half of it.
LLongBits == 8
\* Longest content a buffer of the model holds.
MaxLen == 3
\* Most nodes the lists l and o hold together.
MaxNodes == 3
\* Longest data block handed to an append or a copy.
MaxData == 2

\* --------------------------------------------------------------- constants
SDS_TYPE_5 == 0
SDS_TYPE_8 == 1
SDS_TYPE_16 == 2
SDS_TYPE_32 == 3
SDS_TYPE_64 == 4
SDS_MAX_PREALLOC == 1048576

SdsTypes == {SDS_TYPE_5, SDS_TYPE_8, SDS_TYPE_16, SDS_TYPE_32, SDS_TYPE_64}

\* The bytes the model's data is drawn from: NUL and 'A'.
Byte == {0, 65}

RECURSIVE SeqsUpTo(_, _)
SeqsUpTo(S, n) ==
    IF n = 0 THEN {<<>>}
    ELSE LET shorter == SeqsUpTo(S, n - 1)
         IN  shorter \cup {Append(q, b) : q \in {x \in shorter : Len(x) = n - 1}, b \in S}

SeqsOfLen(S, n) == {q \in SeqsUpTo(S, n) : Len(q) = n}

Zeros(n) == [i \in 1..n |-> 0]

\* The first n of the bytes b, as far as they are tracked.
Take(b, n) == SubSeq(b, 1, IF n < Len(b) THEN n ELSE Len(b))

Reverse(q) == [i \in 1..Len(q) |-> q[Len(q) + 1 - i]]

Min(a, b) == IF a < b THEN a ELSE b
Max(a, b) == IF a > b THEN a ELSE b

\* ------------------------------------------------------------ header codec
NULL == [type |-> -1, len |-> 0, alloc |-> 0, buf |-> <<>>, blk |-> 0]
FREED == [type |-> -2, len |-> 0, alloc |-> 0, buf |-> <<>>, blk |-> 0]

IsBuf(s) == s.type \in SdsTypes

Res(ret, arg, fault) == [ret |-> ret, arg |-> arg, fault |-> fault]

sdsHdrSize(type) ==
    CASE type = SDS_TYPE_5 -> 1
      [] type = SDS_TYPE_8 -> 3
      [] type = SDS_TYPE_16 -> 5
      [] type = SDS_TYPE_32 -> 9
      [] type = SDS_TYPE_64 -> 17
      [] OTHER -> 0

\* string_size < 1ll<<32 is written with a division: the model's integers
\* are 32 bits wide.
sdsReqType(string_size) ==
    IF string_size < 32 THEN SDS_TYPE_5
    ELSE IF string_size < 256 THEN SDS_TYPE_8
    ELSE IF string_size < 65536 THEN SDS_TYPE_16
    ELSE IF string_size \div 65536 < 65536 THEN SDS_TYPE_32
    ELSE SDS_TYPE_64

\* The value a header field of the class keeps of v (uint8_t, uint16_t, ...;
\* class 5 keeps 5 bits in the flags byte).
FieldOf(type, v) ==
    CASE type = SDS_TYPE_5 -> v % 32
      [] type = SDS_TYPE_8 -> v % 256
      [] type = SDS_TYPE_16 -> v % 65536
      [] OTHER -> v

sdslen(s) == s.len

sdsalloc(s) == IF s.type = SDS_TYPE_5 THEN s.len ELSE s.alloc

sdsavail(s) == IF s.type = SDS_TYPE_5 THEN 0 ELSE s.alloc - s.len

sdssetlen(s, newlen) == [s EXCEPT !.len = FieldOf(s.type, newlen)]

sdsinclen(s, inc) == [s EXCEPT !.len = FieldOf(s.type, s.len + inc)]

sdssetalloc(s, newlen) ==
    IF s.type = SDS_TYPE_5 THEN s ELSE [s EXCEPT !.alloc = FieldOf(s.type, newlen)]

\* The content: the first len bytes.
Content(s) == SubSeq(s.buf, 1, Min(s.len, Len(s.buf)))

\* Writing data at offset off of the bytes b (memcpy, memset, s[i] = c);
\* what lay beyond the written bytes stays.
Poke(b, off, data) ==
    SubSeq(b, 1, off) \o data \o SubSeq(b, off + Len(data) + 1, Len(b))

\* ---------------------------------------------------------------- creation
\* init is [kind, bytes]: "data" (a pointer to bytes), "null" (zero fill) or
\* "noinit" (SDS_NOINIT).  junk is what the allocator's memory holds where
\* nothing is written.  ok says whether s_malloc succeeds.
\* sdsnewlen copying init as a C string: up to its first zero byte.
sdsnewlen_strlen(init, initlen, junk, ok) ==
    LET t0 == sdsReqType(initlen)
        type == IF t0 = SDS_TYPE_5 /\ initlen = 0 THEN SDS_TYPE_8 ELSE t0
        hdrlen == sdsHdrSize(type)
        cut == IF \E i \in 1..initlen : init.bytes[i] = 0
               THEN CHOOSE i \in 1..initlen :
                       init.bytes[i] = 0 /\ \A j \in 1..(i - 1) : init.bytes[j] # 0
               ELSE initlen
        body == IF init.kind = "null" THEN Zeros(initlen)
                ELSE IF init.kind = "data" /\ initlen # 0
                THEN SubSeq(init.bytes, 1, cut) \o [i \in 1..(initlen - cut) |-> 255]
                ELSE SubSeq(junk, 1, initlen)
        hdr == [type |-> type, len |-> FieldOf(type, initlen),
                alloc |-> IF type = SDS_TYPE_5 THEN 0 ELSE FieldOf(type, initlen),
                buf |-> body, blk |-> hdrlen + initlen + 1]
    IN  IF ~ok
        THEN IF init.kind = "null" THEN Res(NULL, NULL, "nullwrite")
             ELSE Res(NULL, NULL, "none")
        ELSE Res([hdr EXCEPT !.buf = Poke(body, initlen, <<0>>)], NULL, "none")

sdsnewlen(init, initlen, junk, ok) ==
    LET t0 == sdsReqType(initlen)
        type == IF t0 = SDS_TYPE_5 /\ initlen = 0 THEN SDS_TYPE_8 ELSE t0
        hdrlen == sdsHdrSize(type)
        body == IF init.kind = "null" THEN Zeros(initlen)
                ELSE IF init.kind = "data" /\ initlen # 0 THEN SubSeq(init.bytes, 1, initlen)
                ELSE SubSeq(junk, 1, initlen)
        hdr == [type |-> type, len |-> FieldOf(type, initlen),
                alloc |-> IF type = SDS_TYPE_5 THEN 0 ELSE FieldOf(type, initlen),
                buf |-> body, blk |-> hdrlen + initlen + 1]
    IN  IF ~ok
        THEN \* memset(sh, 0, ...) runs before the sh == NULL test
             IF init.kind = "null" THEN Res(NULL, NULL, "nullwrite")
             ELSE Res(NULL, NULL, "none")
        ELSE Res([hdr EXCEPT !.buf = Poke(body, initlen, <<0>>)], NULL, "none")

sdsempty(ok) == sdsnewlen([kind |-> "data", bytes |-> <<>>], 0, <<>>, ok)

sdsdup(s, ok) ==
    LET r == sdsnewlen([kind |-> "data", bytes |-> s.buf], sdslen(s), <<>>, ok)
    IN  Res(r.ret, s, r.fault)

sdsfree(s) == Res(NULL, IF s = NULL THEN NULL ELSE FREED, "none")

\* ------------------------------------------------------------------ growth
\* sdsMakeRoomFor releasing the old block before it asks for the new one.
sdsMakeRoomFor_freefirst(s, addlen, ok) ==
    LET avail == sdsavail(s)
        len == sdslen(s)
        oldtype == s.type
        sum == len + addlen
        newlen == IF sum < SDS_MAX_PREALLOC THEN sum * 2 ELSE sum + SDS_MAX_PREALLOC
        t0 == sdsReqType(newlen)
        type == IF t0 = SDS_TYPE_5 THEN SDS_TYPE_8 ELSE t0
        hdrlen == sdsHdrSize(type)
    IN  IF avail >= addlen THEN Res(s, s, "none")
        ELSE IF oldtype = type
        THEN IF ~ok THEN Res(NULL, s, "none")
             ELSE Res(sdssetalloc([s EXCEPT !.blk = hdrlen + newlen + 1], newlen),
                      FREED, "none")
        ELSE IF ~ok THEN Res(NULL, FREED, "none")
             ELSE LET fresh == [type |-> type, len |-> 0, alloc |-> 0,
                                buf |-> Take(s.buf, len + 1),
                                blk |-> hdrlen + newlen + 1]
                  IN  Res(sdssetalloc(sdssetlen(fresh, len), newlen), FREED, "none")

\* sdsMakeRoomFor whose new block never gets its length field set.
sdsMakeRoomFor_nolen(s, addlen, ok) ==
    LET avail == sdsavail(s)
        len == sdslen(s)
        oldtype == s.type
        sum == len + addlen
        newlen == IF sum < SDS_MAX_PREALLOC THEN sum * 2 ELSE sum + SDS_MAX_PREALLOC
        t0 == sdsReqType(newlen)
        type == IF t0 = SDS_TYPE_5 THEN SDS_TYPE_8 ELSE t0
        hdrlen == sdsHdrSize(type)
    IN  IF avail >= addlen THEN Res(s, s, "none")
        ELSE IF oldtype = type
        THEN IF ~ok THEN Res(NULL, s, "none")
             ELSE Res(sdssetalloc([s EXCEPT !.blk = hdrlen + newlen + 1], newlen),
                      FREED, "none")
        ELSE IF ~ok THEN Res(NULL, s, "none")
             ELSE LET fresh == [type |-> type, len |-> 0, alloc |-> 0,
                                buf |-> Take(s.buf, len + 1),
                                blk |-> hdrlen + newlen + 1]
                  IN  Res(sdssetalloc(fresh, newlen), FREED, "none")

\* sdsMakeRoomFor() doubling above the preallocation ceiling as well.
sdsMakeRoomFor_double(s, addlen, ok) ==
    LET avail == sdsavail(s)
        len == sdslen(s)
        oldtype == s.type
        sum == len + addlen
        newlen == sum * 2
        t0 == sdsReqType(newlen)
        type == IF t0 = SDS_TYPE_5 THEN SDS_TYPE_8 ELSE t0
        hdrlen == sdsHdrSize(type)
    IN  IF avail >= addlen THEN Res(s, s, "none")
        ELSE IF oldtype = type
        THEN IF ~ok THEN Res(NULL, s, "none")
             ELSE Res(sdssetalloc([s EXCEPT !.blk = hdrlen + newlen + 1], newlen),
                      FREED, "none")
        ELSE IF ~ok THEN Res(NULL, s, "none")
             ELSE LET fresh == [type |-> type, len |-> 0, alloc |-> 0,
                                buf |-> Take(s.buf, len + 1),
                                blk |-> hdrlen + newlen + 1]
                  IN  Res(sdssetalloc(sdssetlen(fresh, len), newlen), FREED, "none")

\* sdsMakeRoomFor() keeping class 5 when the new capacity fits it.
sdsMakeRoomFor_class5(s, addlen, ok) ==
    LET avail == sdsavail(s)
        len == sdslen(s)
        oldtype == s.type
        sum == len + addlen
        newlen == IF sum < SDS_MAX_PREALLOC THEN sum * 2 ELSE sum + SDS_MAX_PREALLOC
        t0 == sdsReqType(newlen)
        type == t0
        hdrlen == sdsHdrSize(type)
    IN  IF avail >= addlen THEN Res(s, s, "none")
        ELSE IF oldtype = type
        THEN IF ~ok THEN Res(NULL, s, "none")
             ELSE Res(sdssetalloc([s EXCEPT !.blk = hdrlen + newlen + 1], newlen),
                      FREED, "none")
        ELSE IF ~ok THEN Res(NULL, s, "none")
             ELSE LET fresh == [type |-> type, len |-> 0, alloc |-> 0,
                                buf |-> Take(s.buf, len + 1),
                                blk |-> hdrlen + newlen + 1]
                  IN  Res(sdssetalloc(sdssetlen(fresh, len), newlen), FREED, "none")

sdsMakeRoomFor(s, addlen, ok) ==
    LET avail == sdsavail(s)
        len == sdslen(s)
        oldtype == s.type
        sum == len + addlen
        newlen == IF sum < SDS_MAX_PREALLOC THEN sum * 2 ELSE sum + SDS_MAX_PREALLOC
        t0 == sdsReqType(newlen)
        type == IF t0 = SDS_TYPE_5 THEN SDS_TYPE_8 ELSE t0
        hdrlen == sdsHdrSize(type)
    IN  IF avail >= addlen THEN Res(s, s, "none")
        ELSE IF oldtype = type
        THEN IF ~ok THEN Res(NULL, s, "none")
             ELSE Res(sdssetalloc([s EXCEPT !.blk = hdrlen + newlen + 1], newlen),
                      FREED, "none")
        ELSE IF ~ok THEN Res(NULL, s, "none")
             ELSE LET fresh == [type |-> type, len |-> 0, alloc |-> 0,
                                buf |-> Take(s.buf, len + 1),
                                blk |-> hdrlen + newlen + 1]
                  IN  Res(sdssetalloc(sdssetlen(fresh, len), newlen), FREED, "none")

\* realloc() or malloc()+free() down to the content; class 5 or 8 replaces a
\* larger class only through a new block.
sdsRemoveFreeSpace(s, ok) ==
    LET oldtype == s.type
        oldhdrlen == sdsHdrSize(oldtype)
        len == sdslen(s)
        type == sdsReqType(len)
        hdrlen == sdsHdrSize(type)
    IN  IF oldtype = type \/ type > SDS_TYPE_8
        THEN IF ~ok THEN Res(NULL, s, "none")
             ELSE Res(sdssetalloc([s EXCEPT !.blk = oldhdrlen + len + 1,
                                            !.buf = Take(s.buf, len + 1)], len),
                      FREED, "none")
        ELSE IF ~ok THEN Res(NULL, s, "none")
             ELSE LET fresh == [type |-> type, len |-> 0, alloc |-> 0,
                                buf |-> Take(s.buf, len + 1),
                                blk |-> hdrlen + len + 1]
                  IN  Res(sdssetalloc(sdssetlen(fresh, len), len), FREED, "none")

\* ---------------------------------------------------------------- mutators
\* The assertion of sdsIncrLen leaving out the free space of classes 8 to 64.
IncrLenAssert_signonly(s, incr) ==
    IF s.type = SDS_TYPE_5
    THEN (incr > 0 /\ s.len + incr < 32) \/ (incr < 0 /\ s.len >= -incr)
    ELSE incr >= 0 \/ (incr < 0 /\ s.len >= -incr)

\* The assertion of sdsIncrLen, as each class writes it.
IncrLenAssert(s, incr) ==
    IF s.type = SDS_TYPE_5
    THEN (incr > 0 /\ s.len + incr < 32) \/ (incr < 0 /\ s.len >= -incr)
    ELSE (incr >= 0 /\ s.alloc - s.len >= incr) \/ (incr < 0 /\ s.len >= -incr)

\* sdsIncrLen without its final s[len] = '\0': the byte there is whatever
\* the memory held.
sdsIncrLen_noterm(s, incr, spare) ==
    IF ~IncrLenAssert(s, incr) THEN Res(s, s, "assert")
    ELSE LET len == s.len + incr
             mem == IF incr > 0 THEN Poke(SubSeq(s.buf, 1, s.len), s.len, SubSeq(spare, 1, incr))
                    ELSE s.buf
             t == [s EXCEPT !.len = FieldOf(s.type, len),
                            !.buf = Take(mem \o <<255>>, len + 1)]
         IN  Res(t, t, "none")

\* spare is what lies at s[len], s[len+1], ... when the call is made: the
\* bytes the caller wrote there after sdsMakeRoomFor(), or whatever the
\* memory held.
sdsIncrLen(s, incr, spare) ==
    IF ~IncrLenAssert(s, incr) THEN Res(s, s, "assert")
    ELSE LET len == s.len + incr
             mem == IF incr > 0 THEN Poke(SubSeq(s.buf, 1, s.len), s.len, SubSeq(spare, 1, incr))
                    ELSE s.buf
             t == [s EXCEPT !.len = FieldOf(s.type, len),
                            !.buf = SubSeq(Poke(mem, len, <<0>>), 1, len + 1)]
         IN  Res(t, t, "none")

sdsgrowzero(s, len, ok) ==
    LET curlen == sdslen(s)
        r == sdsMakeRoomFor(s, len - curlen, ok)
    IN  IF len <= curlen THEN Res(s, s, "none")
        ELSE IF r.ret = NULL THEN Res(NULL, r.arg, r.fault)
        ELSE LET t == sdssetlen([r.ret EXCEPT !.buf = Poke(SubSeq(r.ret.buf, 1, curlen),
                                                         curlen, Zeros(len - curlen + 1))],
                                len)
             IN  Res(t, IF r.arg = FREED THEN FREED ELSE t, "none")

\* sdscatlen copying t to the start of the buffer instead of its end.
sdscatlen_front(s, t, len, ok) ==
    LET curlen == sdslen(s)
        r == sdsMakeRoomFor(s, len, ok)
    IN  IF r.ret = NULL THEN Res(NULL, r.arg, r.fault)
        ELSE LET copied == Poke(SubSeq(r.ret.buf, 1, curlen) \o [i \in 1..len |-> 255],
                                0, SubSeq(t, 1, len))
                 u == sdssetlen([r.ret EXCEPT !.buf = copied], curlen + len)
                 v == [u EXCEPT !.buf = Poke(copied, curlen + len, <<0>>)]
             IN  Res(v, IF r.arg = FREED THEN FREED ELSE v, "none")

sdscatlen(s, t, len, ok) ==
    LET curlen == sdslen(s)
        r == sdsMakeRoomFor(s, len, ok)
    IN  IF r.ret = NULL THEN Res(NULL, r.arg, r.fault)
        ELSE LET copied == Poke(SubSeq(r.ret.buf, 1, curlen), curlen, SubSeq(t, 1, len))
                 u == sdssetlen([r.ret EXCEPT !.buf = copied], curlen + len)
                 v == [u EXCEPT !.buf = Poke(copied, curlen + len, <<0>>)]
             IN  Res(v, IF r.arg = FREED THEN FREED ELSE v, "none")

\* sdscpylen() without the sdssetlen() of the new length.
sdscpylen_nolen(s, t, len, ok) ==
    LET r == IF sdsalloc(s) < len THEN sdsMakeRoomFor(s, len - sdslen(s), ok)
             ELSE Res(s, s, "none")
    IN  IF r.ret = NULL THEN Res(NULL, r.arg, r.fault)
        ELSE LET copied == Poke(Poke(r.ret.buf, 0, SubSeq(t, 1, len)), len, <<0>>)
                 u == [r.ret EXCEPT !.buf = SubSeq(copied, 1, len + 1)]
             IN  Res(u, IF r.arg = FREED THEN FREED ELSE u, "none")

sdscpylen(s, t, len, ok) ==
    LET r == IF sdsalloc(s) < len THEN sdsMakeRoomFor(s, len - sdslen(s), ok)
             ELSE Res(s, s, "none")
    IN  IF r.ret = NULL THEN Res(NULL, r.arg, r.fault)
        ELSE LET copied == Poke(Poke(r.ret.buf, 0, SubSeq(t, 1, len)), len, <<0>>)
                 u == sdssetlen([r.ret EXCEPT !.buf = SubSeq(copied, 1, len + 1)], len)
             IN  Res(u, IF r.arg = FREED THEN FREED ELSE u, "none")

sdsclear(s) ==
    LET t == [sdssetlen(s, 0) EXCEPT !.buf = <<0>>]
    IN  Res(t, t, "none")

\* strlen(): the index of the first zero byte.  When the tracked bytes hold
\* none the scan runs on into untracked memory and stops `over` bytes later.
strlen(b, over) ==
    IF \E i \in 1..Len(b) : b[i] = 0
    THEN (CHOOSE i \in 1..Len(b) : b[i] = 0 /\ \A j \in 1..(i - 1) : b[j] # 0) - 1
    ELSE Len(b) + over

sdsupdatelen(s, over) ==
    LET reallen == strlen(s.buf, over)
        mem == IF reallen < Len(s.buf) THEN s.buf
               ELSE s.buf \o [i \in 1..(reallen - Len(s.buf)) |-> 255] \o <<0>>
        t == sdssetlen([s EXCEPT !.buf = SubSeq(mem, 1, reallen + 1)], reallen)
    IN  Res(t, t, "none")

\* strchr(cset, c) != NULL for the C string cset: the terminating zero of
\* cset is one of the bytes it finds.
strchr(cset, c) == c = 0 \/ \E i \in 1..Len(cset) : cset[i] = c

\* The left scan as a single test in place of the loop.
TrimLeft_once(b, sp, end, cset) ==
    IF sp <= end /\ strchr(cset, b[sp + 1]) THEN sp + 1 ELSE sp

RECURSIVE TrimLeft(_, _, _, _)
TrimLeft(b, sp, end, cset) ==
    IF sp <= end /\ strchr(cset, b[sp + 1]) THEN TrimLeft(b, sp + 1, end, cset) ELSE sp

RECURSIVE TrimRight(_, _, _, _)
TrimRight(b, ep, sp, cset) ==
    IF ep > sp /\ strchr(cset, b[ep + 1]) THEN TrimRight(b, ep - 1, sp, cset) ELSE ep

sdstrim(s, cset) ==
    LET end == sdslen(s) - 1
        sp == TrimLeft(s.buf, 0, end, cset)
        ep == TrimRight(s.buf, end, sp, cset)
        len == IF sp > ep THEN 0 ELSE (ep - sp) + 1
        moved == IF sp # 0 THEN Poke(s.buf, 0, SubSeq(s.buf, sp + 1, sp + len)) ELSE s.buf
        t == sdssetlen([s EXCEPT !.buf = SubSeq(Poke(moved, len, <<0>>), 1, len + 1)], len)
    IN  Res(t, t, "none")

\* sdsrange() without the memmove() of the span to offset 0.
sdsrange_nomove(s, start, end) ==
    LET len == sdslen(s)
        start1 == IF start < 0 THEN Max(len + start, 0) ELSE start
        end1 == IF end < 0 THEN Max(len + end, 0) ELSE end
        newlen1 == IF start1 > end1 THEN 0 ELSE (end1 - start1) + 1
        end2 == IF newlen1 # 0 /\ start1 < len /\ end1 >= len THEN len - 1 ELSE end1
        newlen == IF newlen1 # 0
                  THEN IF start1 >= len THEN 0
                       ELSE IF end1 >= len
                            THEN (IF start1 > end2 THEN 0 ELSE (end2 - start1) + 1)
                            ELSE newlen1
                  ELSE 0
        start2 == IF newlen1 # 0 THEN start1 ELSE 0
        moved == s.buf
        t == sdssetlen([s EXCEPT !.buf = SubSeq(Poke(moved, newlen, <<0>>), 1, newlen + 1)],
                       newlen)
    IN  IF len = 0 THEN Res(s, s, "none") ELSE Res(t, t, "none")

sdsrange(s, start, end) ==
    LET len == sdslen(s)
        start1 == IF start < 0 THEN Max(len + start, 0) ELSE start
        end1 == IF end < 0 THEN Max(len + end, 0) ELSE end
        newlen1 == IF start1 > end1 THEN 0 ELSE (end1 - start1) + 1
        end2 == IF newlen1 # 0 /\ start1 < len /\ end1 >= len THEN len - 1 ELSE end1
        newlen == IF newlen1 # 0
                  THEN IF start1 >= len THEN 0
                       ELSE IF end1 >= len
                            THEN (IF start1 > end2 THEN 0 ELSE (end2 - start1) + 1)
                            ELSE newlen1
                  ELSE 0
        start2 == IF newlen1 # 0 THEN start1 ELSE 0
        moved == IF start2 # 0 /\ newlen # 0
                 THEN Poke(s.buf, 0, SubSeq(s.buf, start2 + 1, start2 + newlen))
                 ELSE s.buf
        t == sdssetlen([s EXCEPT !.buf = SubSeq(Poke(moved, newlen, <<0>>), 1, newlen + 1)],
                       newlen)
    IN  IF len = 0 THEN Res(s, s, "none") ELSE Res(t, t, "none")

\* -------------------------------------------------------------- formatting
IntBits == LLongBits \div 2

LLONG_MIN == -(2 ^ (LLongBits - 1))
LLONG_MAX == 2 ^ (LLongBits - 1) - 1
ULLONG_MAX == 2 ^ LLongBits - 1
INT_MIN == -(2 ^ (IntBits - 1))
INT_MAX == 2 ^ (IntBits - 1) - 1
UINT_MAX == 2 ^ IntBits - 1

\* The do-while loop of sdsll2str()/sdsull2str(): the digits, last first.
RECURSIVE RevDigits(_)
RevDigits(v) ==
    <<48 + (v % 10)>> \o (IF v \div 10 # 0 THEN RevDigits(v \div 10) ELSE <<>>)

\* -value in long long, then converted to unsigned long long.  The negation
\* of LLONG_MIN overflows: the build either wraps it to LLONG_MIN (wrap) or
\* traps, which Overflows() tells the caller.
Overflows(value) == value = LLONG_MIN

sdsll2str(value, wrap) ==
    LET v == IF value < 0
             THEN (IF Overflows(value) THEN LLONG_MIN ELSE -value) % (2 ^ LLongBits)
             ELSE value
    IN  Reverse(RevDigits(v) \o (IF value < 0 THEN <<45>> ELSE <<>>))

sdsull2str(v) == Reverse(RevDigits(v))

\* The C string a char* points to: the bytes before the first zero.
CStr(b) == SubSeq(b, 1, strlen(b, 0))

\* The byte at index f of the format fmt (a C string).  Index Len(fmt) holds
\* the terminator; past it lies memory that is not the format's: tail.
FmtAt(fmt, tail, f) ==
    IF f < Len(fmt) THEN fmt[f + 1]
    ELSE IF f = Len(fmt) THEN 0
    ELSE IF f - Len(fmt) <= Len(tail) THEN tail[f - Len(fmt)]
    ELSE 0

\* The state of sdscatfmt()'s loop: the buffer, the format cursor, the write
\* position, the arguments left, the allocations that will still succeed,
\* whether the block passed in is gone, whether the cursor left the format,
\* and the fault met.
FmtRoomDone(st, grows, r) ==
    IF r.ret = NULL
    THEN [st EXCEPT !.s = NULL, !.fault = "nullderef"]
    ELSE [st EXCEPT !.s = r.ret,
                    !.budget = IF grows THEN st.budget - 1 ELSE st.budget,
                    !.gone = st.gone \/ r.arg = FREED]

\* s = sdsMakeRoomFor(s, n), the result used unchecked.
FmtRoom(st, n) ==
    FmtRoomDone(st, sdsavail(st.s) < n, sdsMakeRoomFor(st.s, n, st.budget > 0))

\* memcpy(s+i, data, l); sdsinclen(s, l); i += l, and s[i++] = c;
\* sdsinclen(s, 1).
FmtCopy(st, data) ==
    IF st.fault # "none" THEN st
    ELSE [st EXCEPT !.s = sdsinclen([st.s EXCEPT !.buf = Poke(Take(st.s.buf, st.i),
                                                            st.i, data)], Len(data)),
                    !.i = st.i + Len(data)]

FmtPut(st, data) ==
    FmtCopy(IF sdsavail(st.s) < Len(data) THEN FmtRoom(st, Len(data)) ELSE st, data)

FmtArg(st, next) ==
    IF next \in {105, 73} /\ Overflows(Head(st.args)) /\ ~st.wrap
    THEN [st EXCEPT !.fault = "overflow"]
    ELSE
    FmtPut([st EXCEPT !.args = Tail(st.args)],
           CASE next = 115 -> CStr(Head(st.args))
             [] next = 83 -> Content(Head(st.args))
             [] next = 105 \/ next = 73 -> sdsll2str(Head(st.args), st.wrap)
             [] OTHER -> sdsull2str(Head(st.args)))

\* The switch on *f; st.f is left on the last byte consumed.
FmtSwitch(st, c, next) ==
    IF st.fault # "none" THEN st
    ELSE IF c = 37
    THEN IF next \in {115, 83, 105, 73, 117, 85}
         THEN FmtArg([st EXCEPT !.f = st.f + 1], next)
         ELSE FmtCopy([st EXCEPT !.f = st.f + 1], <<next>>)
    ELSE FmtCopy(st, <<c>>)

FmtSpace(st) == IF sdsavail(st.s) = 0 THEN FmtRoom(st, 1) ELSE st

FmtMark(fmt, st) == IF st.f > Len(fmt) THEN [st EXCEPT !.overread = TRUE] ELSE st

RECURSIVE FmtLoop(_, _, _)
FmtAdvance(fmt, tail, st) ==
    IF st.fault # "none" THEN st ELSE FmtLoop(fmt, tail, [st EXCEPT !.f = st.f + 1])

FmtLoop(fmt, tail, st) ==
    IF FmtAt(fmt, tail, st.f) = 0 THEN FmtMark(fmt, st)
    ELSE FmtAdvance(fmt, tail,
                    FmtSwitch(FmtSpace(FmtMark(fmt, st)),
                              FmtAt(fmt, tail, st.f), FmtAt(fmt, tail, st.f + 1)))

\* s[i] = '\0'; return s.
FmtEnd(s, st) ==
    IF st.fault # "none" THEN Res(NULL, IF st.gone THEN FREED ELSE s, st.fault)
    ELSE Res([st.s EXCEPT !.buf = Take(Poke(Take(st.s.buf, st.i), st.i, <<0>>), st.i + 1)],
             IF st.gone THEN FREED
             ELSE [st.s EXCEPT !.buf = Take(Poke(Take(st.s.buf, st.i), st.i, <<0>>), st.i + 1)],
             IF st.overread THEN "overread" ELSE "none")

sdscatfmt(s, fmt, args, tail, budget, wrap) ==
    FmtEnd(s, FmtLoop(fmt, tail, [s |-> s, f |-> 0, i |-> sdslen(s), args |-> args,
                                  budget |-> budget, wrap |-> wrap, gone |-> FALSE,
                                  overread |-> FALSE, fault |-> "none"]))

\* ------------------------------------------------------------------- state
\* s     the buffer the caller holds (NULL before creation, FREED once freed)
\* op    the last operation: its name, numeric argument, data argument,
\*       whether it returned NULL, and the fault it ran into
\* base  the content s had when the current run of appends began
\* sent  everything appended since, in call order
\* ------------------------------------------------- sdscatrepr, sdssplitargs
\* isprint(): the bytes 32..126; what it says of a byte above 127, passed as
\* a negative char, is not defined and is the parameter hi.
isprint(c, hi) == (c >= 32 /\ c <= 126) \/ (c >= 128 /\ hi)

isspace(c) == c \in {9, 10, 11, 12, 13, 32}

\* One digit of "%02x".
HexChar(d) == IF d < 10 THEN 48 + d ELSE 87 + d

\* The text sdscatrepr appends for the byte c.
ReprText(c, hi) ==
    CASE c = 92 \/ c = 34 -> <<92, c>>
      [] c = 10 -> <<92, 110>>
      [] c = 13 -> <<92, 114>>
      [] c = 9 -> <<92, 116>>
      [] c = 7 -> <<92, 97>>
      [] c = 8 -> <<92, 98>>
      [] OTHER -> IF isprint(c, hi) THEN <<c>>
                  ELSE <<92, 120, HexChar(c \div 16), HexChar(c % 16)>>

\* s = sdscatlen(s, t, len) or s = sdscatprintf(s, ...) with s the handle kept
\* in w.s: the result is taken unchecked, so a call after a failed one reads
\* the header of NULL.  w.n counts the allocator calls made; the one numbered
\* fail returns NULL.
CatUnchecked(w, t, fail) ==
    IF w.fault # "none" THEN w
    ELSE IF w.s = NULL THEN [w EXCEPT !.fault = "nullderef"]
    ELSE IF sdsavail(w.s) >= Len(t)
    THEN [w EXCEPT !.s = sdscatlen(w.s, t, Len(t), TRUE).ret]
    ELSE [w EXCEPT !.s = sdscatlen(w.s, t, Len(t), w.n + 1 # fail).ret,
                   !.n = w.n + 1,
                   !.failed = w.failed \/ w.n + 1 = fail]

RECURSIVE ReprLoop(_, _, _, _, _)
ReprLoop(w, p, i, fail, hi) ==
    IF i > Len(p) THEN w
    ELSE ReprLoop(CatUnchecked(w, ReprText(p[i], hi), fail), p, i + 1, fail, hi)

ReprResult(w) == Res(IF w.fault = "none" THEN w.s ELSE NULL, FREED, w.fault)

sdscatrepr(s, p, len, fail, hi) ==
    ReprResult(CatUnchecked(
                   ReprLoop(CatUnchecked([s |-> s, n |-> 0, failed |-> FALSE,
                                          fault |-> "none"], <<34>>, fail),
                            SubSeq(p, 1, len), 1, fail, hi),
                   <<34>>, fail))

is_hex_digit(c) ==
    (c >= 48 /\ c <= 57) \/ (c >= 97 /\ c <= 102) \/ (c >= 65 /\ c <= 70)

\* hex_digit_to_int without its lower case letters.
hex_digit_to_int_upper(c) ==
    IF c >= 48 /\ c <= 57 THEN c - 48
    ELSE IF c >= 65 /\ c <= 70 THEN c - 55
    ELSE 0

hex_digit_to_int(c) ==
    IF c >= 48 /\ c <= 57 THEN c - 48
    ELSE IF c >= 97 /\ c <= 102 THEN c - 87
    ELSE IF c >= 65 /\ c <= 70 THEN c - 55
    ELSE 0

\* *(line + p) of the C string line: its bytes, then the terminator; nothing
\* is known of what follows the terminator.
At(line, p) == IF p < Len(line) THEN line[p + 1] ELSE IF p = Len(line) THEN 0 ELSE -1

RECURSIVE SkipBlanks(_, _)
SkipBlanks(line, p) ==
    IF At(line, p) # 0 /\ isspace(At(line, p)) THEN SkipBlanks(line, p + 1) ELSE p

\* An escape letter taken for itself.
Unescape_plain(c) == c

Unescape(c) ==
    CASE c = 110 -> 10
      [] c = 114 -> 13
      [] c = 116 -> 9
      [] c = 98 -> 8
      [] c = 97 -> 7
      [] OTHER -> c

\* current = sdscatlen(current, &c, 1), its result unchecked.
ArgCat(st, c, fail) ==
    IF st.current = NULL THEN [st EXCEPT !.fault = "nullderef"]
    ELSE IF sdsavail(st.current) >= 1
    THEN [st EXCEPT !.current = sdscatlen(st.current, <<c>>, 1, TRUE).ret]
    ELSE [st EXCEPT !.current = sdscatlen(st.current, <<c>>, 1, st.n + 1 # fail).ret,
                    !.n = st.n + 1,
                    !.failed = st.failed \/ st.n + 1 = fail]

\* A closing quote with no look at what follows it.
ClosingQuoteErr_never(c1) == FALSE

\* if (*(p+1) && !isspace(*(p+1))) goto err;
ClosingQuoteErr(c1) == c1 # 0 /\ ~isspace(c1)

\* One round of while(!done) before its final if (*p) p++; c0..c3 are
\* *p .. *(p+3).
TokenStep(st, c0, c1, c2, c3, fail) ==
    IF st.mode = "inq"
    THEN IF c0 = 92 /\ c1 = 120 /\ is_hex_digit(c2) /\ is_hex_digit(c3)
         THEN [ArgCat(st, (hex_digit_to_int(c2) * 16 + hex_digit_to_int(c3)) % 256, fail)
                  EXCEPT !.p = st.p + 3]
         ELSE IF c0 = 92 /\ c1 # 0
         THEN [ArgCat(st, Unescape(c1), fail) EXCEPT !.p = st.p + 1]
         ELSE IF c0 = 34
         THEN IF ClosingQuoteErr(c1) THEN [st EXCEPT !.err = TRUE]
              ELSE [st EXCEPT !.done = TRUE]
         ELSE IF c0 = 0 THEN [st EXCEPT !.err = TRUE]
         ELSE ArgCat(st, c0, fail)
    ELSE IF st.mode = "insq"
    THEN IF c0 = 92 /\ c1 = 39
         THEN [ArgCat(st, 39, fail) EXCEPT !.p = st.p + 1]
         ELSE IF c0 = 39
         THEN IF ClosingQuoteErr(c1) THEN [st EXCEPT !.err = TRUE]
              ELSE [st EXCEPT !.done = TRUE]
         ELSE IF c0 = 0 THEN [st EXCEPT !.err = TRUE]
         ELSE ArgCat(st, c0, fail)
    ELSE IF c0 \in {32, 10, 13, 9, 0} THEN [st EXCEPT !.done = TRUE]
         ELSE IF c0 = 34 THEN [st EXCEPT !.mode = "inq"]
         ELSE IF c0 = 39 THEN [st EXCEPT !.mode = "insq"]
         ELSE ArgCat(st, c0, fail)

\* if (*p) p++;
TokenAdvance(line, st) ==
    IF st.err \/ st.fault # "none" THEN st
    ELSE IF At(line, st.p) # 0 THEN [st EXCEPT !.p = st.p + 1]
    ELSE st

RECURSIVE TokenLoop(_, _, _)
TokenLoop(line, st, fail) ==
    IF st.done \/ st.err \/ st.fault # "none" THEN st
    ELSE TokenLoop(line,
                   TokenAdvance(line, TokenStep(st, At(line, st.p), At(line, st.p + 1),
                                                At(line, st.p + 2), At(line, st.p + 3), fail)),
                   fail)

\* if (current == NULL) current = sdsempty();
TokenStart(st, p, fail) ==
    [st EXCEPT !.p = p, !.mode = "plain", !.done = FALSE,
               !.current = sdsempty(st.n + 1 # fail).ret,
               !.n = st.n + 1,
               !.failed = st.failed \/ st.n + 1 = fail,
               !.live = IF st.n + 1 # fail THEN st.live \cup {Len(st.vector) + 1}
                        ELSE st.live]

\* vector = s_realloc(vector, ...); vector[*argc] = current; (*argc)++;
\* current = NULL: the write goes through the NULL of a failed s_realloc.
TokenAdd(st, fail) ==
    IF st.err \/ st.fault # "none" THEN st
    ELSE IF st.n + 1 = fail
    THEN [st EXCEPT !.n = st.n + 1, !.failed = TRUE, !.fault = "nullwrite"]
    ELSE [st EXCEPT !.n = st.n + 1, !.vector = Append(st.vector, st.current),
                    !.current = NULL, !.live = st.live \cup {0}]

ArgsResult(ret, st) ==
    [ret |-> ret, argc |-> IF ret = "vector" THEN Len(st.vector) ELSE 0,
     vector |-> IF ret = "vector" THEN st.vector ELSE <<>>,
     failed |-> st.failed, fault |-> st.fault,
     live |-> st.live, twice |-> st.twice]

\* A block of the call given back to the allocator: the token array is
\* block 0, the k-th token's buffer block k.
ReleaseBlock(st, id) ==
    IF id \in st.live THEN [st EXCEPT !.live = st.live \ {id}]
    ELSE [st EXCEPT !.twice = TRUE]

\* while((*argc)--) sdsfree(vector[*argc]);
RECURSIVE FreeTokens(_, _)
FreeTokens(st, argc) ==
    IF argc = 0 THEN st
    ELSE FreeTokens(IF st.vector[argc] = NULL THEN st ELSE ReleaseBlock(st, argc), argc - 1)

\* s_free(vector);
FreeVector(st) == IF st.vector = <<>> THEN st ELSE ReleaseBlock(st, 0)

\* The err label without its release of the token under construction.
FreeCurrent_never(st) == st

\* if (current) sdsfree(current);
FreeCurrent(st) ==
    IF st.current = NULL THEN st ELSE ReleaseBlock(st, Len(st.vector) + 1)

\* err: release everything, *argc = 0, return NULL.
ArgsErr(st) ==
    ArgsResult("NULL", FreeCurrent(FreeVector(FreeTokens(st, Len(st.vector)))))

\* The end of the line: if (vector == NULL) vector = s_malloc(...);
ArgsEnd(st, fail) ==
    IF st.vector # <<>> THEN ArgsResult("vector", st)
    ELSE IF st.n + 1 = fail THEN ArgsResult("NULL", [st EXCEPT !.failed = TRUE])
    ELSE ArgsResult("vector", [st EXCEPT !.live = st.live \cup {0}])

\* The outer while(1), entered with the blanks before *p skipped; st is
\* what the token before left.
RECURSIVE ArgsLoop(_, _, _)
ArgsLoop(line, st, fail) ==
    IF st.err THEN ArgsErr(st)
    ELSE IF st.fault # "none" THEN ArgsResult("fault", st)
    ELSE IF At(line, SkipBlanks(line, st.p)) = 0 THEN ArgsEnd(st, fail)
    ELSE ArgsLoop(line,
                  TokenAdd(TokenLoop(line, TokenStart(st, SkipBlanks(line, st.p), fail),
                                     fail), fail),
                  fail)

sdssplitargs(line, fail) ==
    ArgsLoop(line,
             [p |-> 0, current |-> NULL, vector |-> <<>>, mode |-> "plain",
              done |-> FALSE, err |-> FALSE, n |-> 0, failed |-> FALSE, fault |-> "none",
              live |-> {}, twice |-> FALSE],
             fail)

\* ------------------------------------------ sdscmp, sdssplitlen, sdsjoinsds
\* memcmp() with every byte taken as a signed char.
memcmp_signed(a, b, n) ==
    LET D == {i \in 1..n : a[i] # b[i]}
        k == CHOOSE i \in D : \A m \in D : i <= m
        sa == IF a[k] >= 128 THEN a[k] - 256 ELSE a[k]
        sb == IF b[k] >= 128 THEN b[k] - 256 ELSE b[k]
    IN  IF D = {} THEN 0 ELSE sa - sb

\* memcmp(a, b, n): the sign of the difference of the first bytes that
\* differ, taken as unsigned char.
memcmp(a, b, n) ==
    LET D == {i \in 1..n : a[i] # b[i]}
        k == CHOOSE i \in D : \A m \in D : i <= m
    IN  IF D = {} THEN 0 ELSE a[k] - b[k]

sdscmp(s1, s2) ==
    LET l1 == sdslen(s1)
        l2 == sdslen(s2)
        minlen == IF l1 < l2 THEN l1 ELSE l2
        cmp == memcmp(s1.buf, s2.buf, minlen)
    IN  IF cmp = 0 THEN (IF l1 > l2 THEN 1 ELSE IF l1 < l2 THEN -1 ELSE 0) ELSE cmp

\* What sdssplitlen() hands back: the return value, *count ("unset" when the
\* call does not write it), the tokens, and whether an allocation failed.
SplitResult(ret, count, tokens, failed) ==
    [ret |-> ret, count |-> count, tokens |-> tokens, failed |-> failed]

\* The cleanup label: the tokens and the array are freed, *count = 0.
SplitCleanup == SplitResult("NULL", 0, <<>>, TRUE)

\* The separator taken as found where its first byte is.
SepAt_first(str, j, sep, seplen) == str[j + 1] = sep[1]

\* Whether the separator is found at offset j of the input.
SepAt(str, j, sep, seplen) ==
    \/ seplen = 1 /\ str[j + 1] = sep[1]
    \/ memcmp(SubSeq(str, j + 1, j + seplen), sep, seplen) = 0

\* The for loop from offset j and the final element; calls counts the
\* allocator calls made so far, and the one numbered fail returns NULL.
RECURSIVE SplitLoop(_, _, _, _, _, _, _, _, _, _)
SplitLoop(str, len, sep, seplen, j, start, tokens, slots, calls, fail) ==
    IF j < len - (seplen - 1)
    THEN LET grow == slots < Len(tokens) + 2
             slots1 == IF grow THEN slots * 2 ELSE slots
             calls1 == IF grow THEN calls + 1 ELSE calls
             tok == sdsnewlen([kind |-> "data", bytes |-> SubSeq(str, start + 1, j)],
                              j - start, <<>>, calls1 + 1 # fail)
         IN  IF grow /\ calls1 = fail THEN SplitCleanup
             ELSE IF SepAt(str, j, sep, seplen)
             THEN IF tok.ret = NULL THEN SplitCleanup
                  ELSE SplitLoop(str, len, sep, seplen, j + seplen, j + seplen,
                                 Append(tokens, tok.ret), slots1, calls1 + 1, fail)
             ELSE SplitLoop(str, len, sep, seplen, j + 1, start, tokens, slots1,
                            calls1, fail)
    ELSE LET tok == sdsnewlen([kind |-> "data", bytes |-> SubSeq(str, start + 1, len)],
                              len - start, <<>>, calls + 1 # fail)
         IN  IF tok.ret = NULL THEN SplitCleanup
             ELSE SplitResult("tokens", Len(tokens) + 1, Append(tokens, tok.ret), FALSE)

sdssplitlen(str, len, sep, seplen, fail) ==
    IF seplen < 1 \/ len < 0 THEN SplitResult("NULL", "unset", <<>>, FALSE)
    ELSE IF fail = 1 THEN SplitResult("NULL", "unset", <<>>, TRUE)
    ELSE IF len = 0 THEN SplitResult("tokens", 0, <<>>, FALSE)
    ELSE SplitLoop(str, len, sep, seplen, 0, 0, <<>>, 5, 1, fail)

\* join = sdscatlen(join, t, len) inside sdsjoinsds(): join may be NULL after
\* a failed allocation, and sdscatlen() reads its header first.
JoinCat(st, t, len) ==
    IF st.fault # "none" THEN st
    ELSE IF st.join = NULL THEN [st EXCEPT !.fault = "nullderef"]
    ELSE LET alloc == sdsavail(st.join) < len
             r == sdscatlen(st.join, t, len, ~(alloc /\ st.calls + 1 = st.fail))
         IN  [st EXCEPT !.join = r.ret,
                        !.calls = IF alloc THEN st.calls + 1 ELSE st.calls]

RECURSIVE JoinLoop(_, _, _, _, _, _)
JoinLoop(st, argv, argc, sep, seplen, j) ==
    IF j >= argc THEN st
    ELSE JoinLoop(IF j # argc - 1
                  THEN JoinCat(JoinCat(st, argv[j + 1].buf, sdslen(argv[j + 1])),
                               sep, seplen)
                  ELSE JoinCat(st, argv[j + 1].buf, sdslen(argv[j + 1])),
                  argv, argc, sep, seplen, j + 1)

sdsjoinsds(argv, argc, sep, seplen, fail) ==
    LET st == JoinLoop([join |-> sdsempty(fail # 1).ret, calls |-> 1, fail |-> fail,
                        fault |-> "none"], argv, argc, sep, seplen, 0)
    IN  Res(st.join, NULL, st.fault)

\* ------------------------------------------------------------------ adlist
\* A node pointer is a node address of the heap or NIL; the heap h gives each
\* address the node's fields and whether the block is allocated.
NIL == 0

AL_START_HEAD == 0
AL_START_TAIL == 1

NodeIds == 1..(2 * MaxNodes)

NoNode == [prev |-> NIL, next |-> NIL, value |-> 0, live |-> FALSE]

EmptyHeap == [n \in NodeIds |-> NoNode]

\* zmalloc(sizeof(listNode)): a block that is not allocated.
zmalloc(h) == CHOOSE n \in NodeIds : ~h[n].live /\ \A m \in NodeIds : ~h[m].live => n <= m

\* zfree(node): what the block held is gone with it.
zfree(h, node) == [h EXCEPT ![node] = NoNode]

\* What a list operation hands back: the heap, the list struct, the return
\* value and the values passed to the list's free method.
LRes(h, list, ret, freed) == [h |-> h, list |-> list, ret |-> ret, freed |-> freed]

listCreate ==
    [head |-> NIL, tail |-> NIL, len |-> 0, dup |-> FALSE, free |-> FALSE, match |-> FALSE]

RECURSIVE EmptyLoop(_, _, _, _, _)
EmptyLoop(h, list, current, len, freed) ==
    IF len = 0 THEN LRes(h, [list EXCEPT !.head = NIL, !.tail = NIL, !.len = 0], "void", freed)
    ELSE EmptyLoop(zfree(h, current), list, h[current].next, len - 1,
                   IF list.free THEN Append(freed, h[current].value) ELSE freed)

listEmpty(h, list) == EmptyLoop(h, list, list.head, list.len, <<>>)

\* listEmpty(list); zfree(list)
listRelease(h, list) == listEmpty(h, list)

listAddNodeHead(h, list, value, ok) ==
    LET node == zmalloc(h)
    IN  IF ~ok THEN LRes(h, list, "NULL", <<>>)
        ELSE IF list.len = 0
        THEN LRes([h EXCEPT ![node] = [prev |-> NIL, next |-> NIL, value |-> value,
                                       live |-> TRUE]],
                  [list EXCEPT !.head = node, !.tail = node, !.len = list.len + 1],
                  "list", <<>>)
        ELSE LRes([h EXCEPT ![node] = [prev |-> NIL, next |-> list.head, value |-> value,
                                       live |-> TRUE],
                            ![list.head].prev = node],
                  [list EXCEPT !.head = node, !.len = list.len + 1], "list", <<>>)

\* listAddNodeTail() placing the new node at the head.
listAddNodeTail_head(h, list, value, ok) == listAddNodeHead(h, list, value, ok)

listAddNodeTail(h, list, value, ok) ==
    LET node == zmalloc(h)
    IN  IF ~ok THEN LRes(h, list, "NULL", <<>>)
        ELSE IF list.len = 0
        THEN LRes([h EXCEPT ![node] = [prev |-> NIL, next |-> NIL, value |-> value,
                                       live |-> TRUE]],
                  [list EXCEPT !.head = node, !.tail = node, !.len = list.len + 1],
                  "list", <<>>)
        ELSE LRes([h EXCEPT ![node] = [prev |-> list.tail, next |-> NIL, value |-> value,
                                       live |-> TRUE],
                            ![list.tail].next = node],
                  [list EXCEPT !.tail = node, !.len = list.len + 1], "list", <<>>)

\* if (node->prev != NULL) node->prev->next = node, and the same for next.
LinkNeighbours(h, node) ==
    LET h1 == IF h[node].prev # NIL THEN [h EXCEPT ![h[node].prev].next = node] ELSE h
    IN  IF h1[node].next # NIL THEN [h1 EXCEPT ![h1[node].next].prev = node] ELSE h1

listInsertNode(h, list, old_node, value, after, ok) ==
    LET node == zmalloc(h)
    IN  IF ~ok THEN LRes(h, list, "NULL", <<>>)
        ELSE IF after
        THEN LRes(LinkNeighbours([h EXCEPT ![node] = [prev |-> old_node,
                                                      next |-> h[old_node].next,
                                                      value |-> value, live |-> TRUE]],
                                 node),
                  [list EXCEPT !.tail = IF list.tail = old_node THEN node ELSE list.tail,
                               !.len = list.len + 1], "list", <<>>)
        ELSE LRes(LinkNeighbours([h EXCEPT ![node] = [prev |-> h[old_node].prev,
                                                      next |-> old_node,
                                                      value |-> value, live |-> TRUE]],
                                 node),
                  [list EXCEPT !.head = IF list.head = old_node THEN node ELSE list.head,
                               !.len = list.len + 1], "list", <<>>)

listDelNode(h, list, node) ==
    LET h1 == IF h[node].prev # NIL THEN [h EXCEPT ![h[node].prev].next = h[node].next]
              ELSE h
        h2 == IF h[node].next # NIL THEN [h1 EXCEPT ![h[node].next].prev = h[node].prev]
              ELSE h1
    IN  LRes(zfree(h2, node),
             [list EXCEPT !.head = IF h[node].prev # NIL THEN list.head ELSE h[node].next,
                          !.tail = IF h[node].next # NIL THEN list.tail ELSE h[node].prev,
                          !.len = list.len - 1],
             "void", IF list.free THEN <<h[node].value>> ELSE <<>>)

\* listRotate() leaving the old head's prev as it was.
listRotate_noprev(h, list) ==
    LET tail == list.tail
    IN  IF list.len <= 1 THEN LRes(h, list, "void", <<>>)
        ELSE LRes([h EXCEPT ![h[tail].prev].next = NIL,
                            ![tail].prev = NIL,
                            ![tail].next = list.head],
                  [list EXCEPT !.tail = h[tail].prev, !.head = tail], "void", <<>>)

listRotate(h, list) ==
    LET tail == list.tail
    IN  IF list.len <= 1 THEN LRes(h, list, "void", <<>>)
        ELSE LRes([h EXCEPT ![h[tail].prev].next = NIL,
                            ![list.head].prev = tail,
                            ![tail].prev = NIL,
                            ![tail].next = list.head],
                  [list EXCEPT !.tail = h[tail].prev, !.head = tail], "void", <<>>)

\* listJoin(l, o): the heap and the two list structs afterwards.
listJoin(h, l, o) ==
    LET h1 == IF o.head # NIL THEN [h EXCEPT ![o.head].prev = l.tail] ELSE h
        h2 == IF l.tail # NIL THEN [h1 EXCEPT ![l.tail].next = o.head] ELSE h1
    IN  [h |-> h2,
         l |-> [l EXCEPT !.head = IF l.tail # NIL THEN l.head ELSE o.head,
                         !.tail = IF o.tail # NIL THEN o.tail ELSE l.tail,
                         !.len = l.len + o.len],
         o |-> [o EXCEPT !.head = NIL, !.tail = NIL, !.len = 0]]

\* listRewind() and listRewindTail(); listGetIterator() sets the same fields
\* in a block of its own.
listRewind(list) == [next |-> list.head, direction |-> AL_START_HEAD]

listRewindTail(list) == [next |-> list.tail, direction |-> AL_START_TAIL]

listGetIterator(list, direction) ==
    [next |-> IF direction = AL_START_HEAD THEN list.head ELSE list.tail,
     direction |-> direction]

\* listNext() stepping by prev in both directions.
listNext_back(h, iter) ==
    LET current == iter.next
    IN  IF current # NIL
        THEN [iter |-> [iter EXCEPT !.next = h[current].prev],
              ret |-> current, fault |-> IF h[current].live THEN "none" ELSE "freed"]
        ELSE [iter |-> iter, ret |-> NIL, fault |-> "none"]

\* listNext(): the iterator afterwards, the node returned, and whether the
\* node read was a freed block.
listNext(h, iter) ==
    LET current == iter.next
    IN  IF current # NIL
        THEN [iter |-> [iter EXCEPT !.next = IF iter.direction = AL_START_HEAD
                                            THEN h[current].next ELSE h[current].prev],
              ret |-> current, fault |-> IF h[current].live THEN "none" ELSE "freed"]
        ELSE [iter |-> iter, ret |-> NIL, fault |-> "none"]

\* What listDup() hands back: the heap, the copy (when ret is "copy"), the
\* values its dup method made and the values passed to its free method.
DupRes(h, ret, copy, made, freed) ==
    [h |-> h, ret |-> ret, copy |-> copy, made |-> made, freed |-> freed]

\* listRelease(copy); return NULL.
DupFail(h, copy, made) ==
    DupRes(listRelease(h, copy).h, "NULL", listCreate, made, listRelease(h, copy).freed)

\* The value the dup method makes of value for the k-th node: a new object.
DupValue(value, k) == <<"dup", value, k>>

\* The while loop of listDup(): k nodes are copied; the allocation numbered
\* fail returns NULL and the dup method returns NULL for node dupfail.
RECURSIVE DupLoop(_, _, _, _, _, _, _)
DupLoop(h, copy, iter, k, fail, dupfail, made) ==
    LET nx == listNext(h, iter)
        value == IF copy.dup THEN DupValue(h[nx.ret].value, k + 1) ELSE h[nx.ret].value
        made1 == IF copy.dup THEN made \cup {value} ELSE made
        add == listAddNodeTail(h, copy, value, k + 2 # fail)
    IN  IF nx.ret = NIL THEN DupRes(h, "copy", copy, made, <<>>)
        ELSE IF copy.dup /\ k + 1 = dupfail THEN DupFail(h, copy, made)
        ELSE IF add.ret = "NULL" THEN DupFail(h, copy, made1)
        ELSE DupLoop(add.h, add.list, nx.iter, k + 1, fail, dupfail, made1)

listDup(h, orig, fail, dupfail) ==
    IF fail = 1 THEN DupRes(h, "NULL", listCreate, {}, <<>>)
    ELSE DupLoop(h, [listCreate EXCEPT !.dup = orig.dup, !.free = orig.free,
                                       !.match = orig.match],
                 listRewind(orig), 0, fail, dupfail, {})

\* The lists of a program: the heap, the list l the operations work on, a
\* second list o, the result of the last listDup(), and the iterator over l
\* with the nodes l had when it was set (snap), the nodes it has returned
\* (seen) and the node it returned last, until it is deleted (last).
NoAdl ==
    [h |-> EmptyHeap, l |-> listCreate, o |-> listCreate, copy |-> listCreate,
     made |-> {}, freed |-> <<>>, iter |-> listRewind(listCreate), active |-> FALSE,
     snap |-> <<>>, seen |-> <<>>, last |-> NIL]

\* ------------------------------------------------------------------- state
VARIABLES s, op, base, sent, argv, adl

vars == <<s, op, base, sent, argv, adl>>

\* No call of sdssplitargs made.
NoArgs ==
    [ret |-> "none", argc |-> 0, vector |-> <<>>, failed |-> FALSE, fault |-> "none",
     live |-> {}, twice |-> FALSE]

Op(name, n, data, r) ==
    [name |-> name, n |-> n, data |-> data,
     ret |-> IF r.ret = NULL THEN "NULL" ELSE "ok", fault |-> r.fault]

\* The caller keeps the returned handle, or the one it passed when the call
\* returned NULL.
Held(r) == IF r.ret # NULL THEN r.ret ELSE r.arg

Step(name, n, data, r) ==
    /\ s' = Held(r)
    /\ op' = Op(name, n, data, r)
    /\ base' = IF IsBuf(Held(r)) THEN Content(Held(r)) ELSE <<>>
    /\ sent' = <<>>
    /\ argv' = argv
    /\ adl' = adl

\* An append of data: what was sent grows by it when the call succeeds.
StepAppend(name, n, data, r) ==
    /\ s' = Held(r)
    /\ op' = Op(name, n, data, r)
    /\ base' = base
    /\ sent' = IF r.ret # NULL /\ r.fault = "none" THEN sent \o data ELSE sent
    /\ argv' = argv
    /\ adl' = adl

Running == op.fault = "none"

\* A class 64 buffer with little content: sdsnewlen(NULL, 1<<32), then
\* sdsrange(s, 0, 255), sdsRemoveFreeSpace(s) and sdsclear(s).
Shrunk64 ==
    [type |-> SDS_TYPE_64, len |-> 0, alloc |-> 256, buf |-> <<0>>,
     blk |-> sdsHdrSize(SDS_TYPE_64) + 256 + 1]

Init ==
    /\ s \in {NULL, Shrunk64}
    /\ op = [name |-> "init", n |-> 0, data |-> <<>>, ret |-> "ok", fault |-> "none"]
    /\ base = <<>>
    /\ sent = <<>>
    /\ argv = NoArgs
    /\ adl = NoAdl

\* Numeric arguments of the model.
AddLens == {0, 1, 128, 32768, 1048576}
Incrs == {-2, -1, 0, 1, 2}
Csets == {<<>>, <<65>>}
Starts == {-1, 0, 1}
Ends == {-1, 0, MaxLen + 1}

\* Formats of sdscatfmt with their arguments and the memory after the
\* format's terminator: "A", "%s", "%S", "%i", "%U", and "A%", whose '%' is
\* the last byte of the format, followed by a zero byte or by "A".  None
\* appends more bytes than the format is long.
FmtCases ==
    { [fmt |-> <<65>>, args |-> <<>>, tail |-> <<>>],
      [fmt |-> <<37, 115>>, args |-> << <<65, 0, 65>> >>, tail |-> <<>>],
      [fmt |-> <<37, 83>>, tail |-> <<>>,
       args |-> << [type |-> SDS_TYPE_5, len |-> 2, alloc |-> 0,
                    buf |-> <<0, 65, 0>>, blk |-> 4] >>],
      [fmt |-> <<37, 105>>, args |-> << 0 >>, tail |-> <<>>],
      [fmt |-> <<37, 85>>, args |-> << 0 >>, tail |-> <<>>],
      [fmt |-> <<65, 37>>, args |-> <<>>, tail |-> <<>>],
      [fmt |-> <<65, 37>>, args |-> <<>>, tail |-> <<65>>] }

New ==
    /\ Running /\ ~IsBuf(s)
    /\ \E kind \in {"data", "null", "noinit"}, b \in SeqsUpTo(Byte, MaxLen), ok \in BOOLEAN :
          Step(CASE kind = "data" -> "sdsnewlen"
                 [] kind = "null" -> "sdsnewlen(NULL)"
                 [] OTHER -> "sdsnewlen(SDS_NOINIT)",
               Len(b), IF kind = "data" THEN b ELSE <<>>,
               sdsnewlen([kind |-> kind, bytes |-> b], Len(b), b, ok))

Free ==
    /\ Running /\ IsBuf(s)
    /\ Step("sdsfree", 0, <<>>, sdsfree(s))

Dup ==
    /\ Running /\ IsBuf(s)
    /\ \E ok \in BOOLEAN : Step("sdsdup", 0, <<>>, sdsdup(s, ok))

MakeRoomFor ==
    /\ Running /\ IsBuf(s)
    /\ \E addlen \in AddLens, ok \in BOOLEAN :
          StepAppend("sdsMakeRoomFor", addlen, <<>>, sdsMakeRoomFor(s, addlen, ok))

RemoveFreeSpace ==
    /\ Running /\ IsBuf(s)
    /\ \E ok \in BOOLEAN : Step("sdsRemoveFreeSpace", 0, <<>>, sdsRemoveFreeSpace(s, ok))

\* The caller writes spare at s+len (when incr > 0) and commits with
\* sdsIncrLen(s, incr).
IncrLen ==
    /\ Running /\ IsBuf(s)
    /\ \E incr \in Incrs :
          /\ sdslen(s) + incr <= MaxLen
          /\ \E spare \in SeqsOfLen(Byte, Max(incr, 0)) :
                IF incr > 0
                THEN StepAppend("sdsIncrLen", incr, spare, sdsIncrLen(s, incr, spare))
                ELSE Step("sdsIncrLen", incr, spare, sdsIncrLen(s, incr, spare))

GrowZero ==
    /\ Running /\ IsBuf(s)
    /\ \E len \in 0..MaxLen, ok \in BOOLEAN :
          Step("sdsgrowzero", len, <<>>, sdsgrowzero(s, len, ok))

CatLen ==
    /\ Running /\ IsBuf(s)
    /\ \E t \in SeqsUpTo(Byte, MaxData), ok \in BOOLEAN :
          /\ sdslen(s) + Len(t) <= MaxLen
          /\ StepAppend("sdscatlen", Len(t), t, sdscatlen(s, t, Len(t), ok))

CpyLen ==
    /\ Running /\ IsBuf(s)
    /\ \E t \in SeqsUpTo(Byte, MaxData), ok \in BOOLEAN :
          Step("sdscpylen", Len(t), t, sdscpylen(s, t, Len(t), ok))

Clear ==
    /\ Running /\ IsBuf(s)
    /\ Step("sdsclear", 0, <<>>, sdsclear(s))

UpdateLen ==
    /\ Running /\ IsBuf(s)
    /\ \E over \in 0..1 : Step("sdsupdatelen", 0, <<>>, sdsupdatelen(s, over))

Trim ==
    /\ Running /\ IsBuf(s)
    /\ \E cset \in Csets : Step("sdstrim", sdslen(s), cset, sdstrim(s, cset))

Range ==
    /\ Running /\ IsBuf(s)
    /\ \E start \in Starts, end \in Ends :
          Step("sdsrange", start, <<end, sdslen(s)>>, sdsrange(s, start, end))

CatFmt ==
    /\ Running /\ IsBuf(s)
    /\ \E c \in FmtCases, budget \in {0, 1, 2} :
          /\ sdslen(s) + Len(c.fmt) + Len(c.tail) <= MaxLen
          /\ Step("sdscatfmt", 0, c.fmt, sdscatfmt(s, c.fmt, c.args, c.tail, budget, TRUE))

Next ==
    \/ New \/ Free \/ Dup
    \/ MakeRoomFor \/ RemoveFreeSpace \/ IncrLen
    \/ GrowZero \/ CatLen \/ CpyLen \/ Clear \/ UpdateLen \/ Trim \/ Range
    \/ CatFmt

Spec == Init /\ [][Next]_vars

\* ------------------------------------------ sdscatrepr and sdssplitargs runs
\* Longest byte sequence given to sdscatrepr.
MaxRepr == 2
\* Longest line given to sdssplitargs.
MaxLine == 4
\* Last allocator call that may be the one to fail.
MaxFail == 3
\* Longest text between the quotes of a quoted line.
MaxBody == 4

\* Bytes given to sdscatrepr: NUL, \a \b \t \n \r, space, double and single
\* quote, 'A', backslash, 'x' and 0xff.
ReprBytes == {0, 7, 8, 9, 10, 13, 32, 34, 39, 65, 92, 120, 255}

\* Characters of the lines given to sdssplitargs: space, double and single
\* quote, backslash, 'a'.
LineChars == {32, 34, 39, 92, 97}

\* Characters between the quotes of the quoted lines: backslash, 'x', '4',
\* 'F' and 'n'.
EscChars == {92, 120, 52, 70, 110}

\* Lines of one double- or single-quoted section.
QuotedLines ==
    {<<q>> \o b \o <<q>> : q \in {34, 39}, b \in SeqsUpTo(EscChars, MaxBody)}

\* Whether q is a sequence of at most n elements of S.
SeqWithin(q, S, n) == Len(q) <= n /\ \A i \in 1..Len(q) : q[i] \in S

IsQuotedLine(line) ==
    /\ Len(line) >= 2 /\ line[1] \in {34, 39} /\ line[Len(line)] = line[1]
    /\ SeqWithin(SubSeq(line, 2, Len(line) - 1), EscChars, MaxBody)

\* The arguments of the one call a run makes: the bytes or the line in
\* op.data, the failing allocator call in op.n.
InitArgs ==
    /\ s = NULL
    /\ \E text \in SeqsUpTo(ReprBytes, MaxRepr) \cup SeqsUpTo(LineChars, MaxLine)
                     \cup QuotedLines,
          fail \in 0..MaxFail :
          op = [name |-> "init", n |-> fail, data |-> text, ret |-> "ok", fault |-> "none"]
    /\ base = <<>>
    /\ sent = <<>>
    /\ argv = NoArgs
    /\ adl = NoAdl

\* s = sdscatrepr(sdsempty(), b, len)
CatRepr ==
    /\ op.name = "init" /\ SeqWithin(op.data, ReprBytes, MaxRepr)
    /\ \E hi \in BOOLEAN :
          /\ s' = sdscatrepr(sdsempty(TRUE).ret, op.data, Len(op.data), op.n, hi).ret
          /\ op' = Op("sdscatrepr", Len(op.data), op.data,
                      sdscatrepr(sdsempty(TRUE).ret, op.data, Len(op.data), op.n, hi))
          /\ argv' = NoArgs
          /\ UNCHANGED <<base, sent, adl>>

\* argv = sdssplitargs(s, &argc) on the text sdscatrepr has built.
SplitRepr ==
    /\ op.name = "sdscatrepr" /\ IsBuf(s)
    /\ \E fail \in 0..MaxFail :
          /\ argv' = sdssplitargs(CStr(s.buf), fail)
          /\ op' = [op EXCEPT !.name = "sdssplitargs(sdscatrepr)"]
          /\ UNCHANGED <<s, base, sent, adl>>

\* argv = sdssplitargs(line, &argc)
SplitArgs ==
    /\ op.name = "init"
    /\ SeqWithin(op.data, LineChars, MaxLine) \/ IsQuotedLine(op.data)
    /\ argv' = sdssplitargs(op.data, op.n)
    /\ op' = [op EXCEPT !.name = "sdssplitargs",
                        !.ret = IF sdssplitargs(op.data, op.n).ret = "vector"
                                THEN "ok" ELSE "NULL",
                        !.fault = sdssplitargs(op.data, op.n).fault]
    /\ UNCHANGED <<s, base, sent, adl>>

NextArgs == CatRepr \/ SplitRepr \/ SplitArgs

SpecArgs == InitArgs /\ [][NextArgs]_vars

\* --------------------------------------- sdscmp, sdssplitlen, sdsjoinsds runs
\* Longest input string and longest separator (or second string).
MaxStr == 5
MaxSep == 2

\* Bytes of the strings: zero, ',' and 0xff; of the separators: zero and ','.
StrBytes == {0, 44, 255}
SepBytes == {0, 44}

\* The arguments of the one call a run makes: the string in op.data, the
\* separator or second string in sent, the allocator call that fails in op.n.
InitStr ==
    /\ s = NULL
    /\ \E str \in SeqsUpTo(StrBytes, MaxStr), sep \in SeqsUpTo(SepBytes, MaxSep),
          fail \in 0..MaxFail :
          /\ op = [name |-> "init", n |-> fail, data |-> str, ret |-> "ok",
                   fault |-> "none"]
          /\ sent = sep
    /\ base = <<>>
    /\ argv = NoArgs
    /\ adl = NoAdl

\* tokens = sdssplitlen(str, len, sep, seplen, &count)
SplitLen ==
    /\ op.name = "init"
    /\ argv' = sdssplitlen(op.data, Len(op.data), sent, Len(sent), op.n)
    /\ op' = [op EXCEPT !.name = "sdssplitlen",
                        !.ret = IF sdssplitlen(op.data, Len(op.data), sent, Len(sent),
                                               op.n).ret = "tokens"
                                THEN "ok" ELSE "NULL"]
    /\ UNCHANGED <<s, base, sent, adl>>

\* tokens = sdssplitlen(str, len, sep, seplen, &count), then
\* s = sdsjoinsds(tokens, count, sep, seplen); the allocation that fails, if
\* one does, is one of the join.
SplitJoin ==
    /\ op.name = "init" /\ Len(sent) >= 1
    /\ argv' = sdssplitlen(op.data, Len(op.data), sent, Len(sent), 0)
    /\ s' = sdsjoinsds(argv'.tokens, argv'.count, sent, Len(sent), op.n).ret
    /\ op' = Op("sdsjoinsds", op.n, op.data,
                sdsjoinsds(argv'.tokens, argv'.count, sent, Len(sent), op.n))
    /\ UNCHANGED <<base, sent, adl>>

\* sdscmp(a, b) and sdscmp(b, a) on the buffers of the two strings.
Cmp ==
    /\ op.name = "init"
    /\ argv' = [cmp |-> sdscmp(sdsnewlen([kind |-> "data", bytes |-> op.data],
                                         Len(op.data), <<>>, TRUE).ret,
                               sdsnewlen([kind |-> "data", bytes |-> sent],
                                         Len(sent), <<>>, TRUE).ret),
                rev |-> sdscmp(sdsnewlen([kind |-> "data", bytes |-> sent],
                                         Len(sent), <<>>, TRUE).ret,
                               sdsnewlen([kind |-> "data", bytes |-> op.data],
                                         Len(op.data), <<>>, TRUE).ret)]
    /\ op' = [op EXCEPT !.name = "sdscmp"]
    /\ UNCHANGED <<s, base, sent, adl>>

NextStr == SplitLen \/ SplitJoin \/ Cmp

SpecStr == InitStr /\ [][NextStr]_vars

\* ------------------------------------------------------------ sdscatfmt runs
\* Most specifiers and literal bytes in one format.
MaxItems == 2

\* The pieces a format is made of, each with the arguments it consumes: a
\* literal byte, %s, %S, %i, %I, %u, %U, %% and %z.
FmtItems ==
    { [fmt |-> <<65>>, args |-> <<>>],
      [fmt |-> <<37, 37>>, args |-> <<>>],
      [fmt |-> <<37, 122>>, args |-> <<>>],
      [fmt |-> <<37, 83>>,
       args |-> << sdsnewlen([kind |-> "data", bytes |-> <<0, 65>>], 2, <<>>, TRUE).ret >>] }
      \cup { [fmt |-> <<37, 115>>, args |-> <<t>>] : t \in { <<0>>, <<65, 0>> } }
      \cup { [fmt |-> <<37, 105>>, args |-> <<v>>] : v \in {INT_MIN, -1, 0, 10, INT_MAX} }
      \cup { [fmt |-> <<37, 73>>, args |-> <<v>>] : v \in {LLONG_MIN, LLONG_MAX} }
      \cup { [fmt |-> <<37, 117>>, args |-> <<v>>] : v \in {UINT_MAX} }
      \cup { [fmt |-> <<37, 85>>, args |-> <<v>>] : v \in {0, ULLONG_MAX} }

RECURSIVE FmtOf(_)
FmtOf(items) == IF items = <<>> THEN <<>> ELSE Head(items).fmt \o FmtOf(Tail(items))

RECURSIVE ArgsOf(_)
ArgsOf(items) == IF items = <<>> THEN <<>> ELSE Head(items).args \o ArgsOf(Tail(items))

\* The arguments of the one call a run makes: the buffer in s, the format in
\* op.data, the allocations that succeed in op.n, the variable arguments and
\* what the negation of LLONG_MIN does in argv.
InitFmt ==
    /\ \E prior \in {<<>>, <<65>>, <<0, 65>>}, items \in SeqsUpTo(FmtItems, MaxItems),
          budget \in {0, 1, 8}, wrap \in BOOLEAN :
          /\ s = sdsnewlen([kind |-> "data", bytes |-> prior], Len(prior), <<>>, TRUE).ret
          /\ base = prior
          /\ op = [name |-> "init", n |-> budget, data |-> FmtOf(items), ret |-> "ok",
                   fault |-> "none"]
          /\ argv = [args |-> ArgsOf(items), wrap |-> wrap]
    /\ sent = <<>>
    /\ adl = NoAdl

\* s = sdscatfmt(s, fmt, ...)
CatFmtArgs ==
    /\ op.name = "init"
    /\ s' = Held(sdscatfmt(s, op.data, argv.args, <<>>, op.n, argv.wrap))
    /\ op' = Op("sdscatfmt", op.n, op.data,
                sdscatfmt(s, op.data, argv.args, <<>>, op.n, argv.wrap))
    /\ UNCHANGED <<base, sent, argv, adl>>

NextFmt == CatFmtArgs

SpecFmt == InitFmt /\ [][NextFmt]_vars

\* ----------------------------------------------------------------- list runs
\* Values stored in the nodes.
Values == {1, 2}

\* The nodes reached from node n by next, and by prev, at most fuel of them.
RECURSIVE WalkNext(_, _, _)
WalkNext(h, n, fuel) ==
    IF n = NIL \/ fuel = 0 THEN <<>> ELSE <<n>> \o WalkNext(h, h[n].next, fuel - 1)

RECURSIVE WalkPrev(_, _, _)
WalkPrev(h, n, fuel) ==
    IF n = NIL \/ fuel = 0 THEN <<>> ELSE <<n>> \o WalkPrev(h, h[n].prev, fuel - 1)

\* The nodes of a list from head to tail.
Nodes(h, list) == WalkNext(h, list.head, 2 * MaxNodes + 1)

\* l = listCreate(); o = listCreate()
InitList ==
    /\ s = NULL
    /\ op = [name |-> "init", n |-> 0, data |-> <<>>, ret |-> "ok", fault |-> "none"]
    /\ base = <<>>
    /\ sent = <<>>
    /\ argv = NoArgs
    /\ adl = NoAdl

\* No iteration is under way and no fault has happened.
Quiet == ~adl.active /\ op.name # "listDup" /\ op.fault = "none"

\* The model keeps at most MaxNodes nodes in l and o together.
Room == adl.l.len + adl.o.len < MaxNodes

\* The world once the results of an earlier listDup() or iteration are
\* dropped.
Idle(w) ==
    [w EXCEPT !.copy = listCreate, !.made = {}, !.freed = <<>>, !.snap = <<>>,
              !.seen = <<>>, !.last = NIL]

ListStep(name, n, data, ret, fault, w) ==
    /\ adl' = w
    /\ op' = [name |-> name, n |-> n, data |-> data, ret |-> ret, fault |-> fault]
    /\ UNCHANGED <<s, base, sent, argv>>

Ret(r) == IF r.ret = "NULL" THEN "NULL" ELSE "ok"

AddNodeHead ==
    /\ Quiet
    /\ \E which \in {"l", "o"}, value \in Values, ok \in BOOLEAN :
          /\ ok => Room
          /\ ListStep("listAddNodeHead", value, <<which>>,
                      Ret(listAddNodeHead(adl.h, adl[which], value, ok)), "none",
                      [Idle(adl) EXCEPT
                          !.h = listAddNodeHead(adl.h, adl[which], value, ok).h,
                          ![which] = listAddNodeHead(adl.h, adl[which], value, ok).list])

AddNodeTail ==
    /\ Quiet
    /\ \E which \in {"l", "o"}, value \in Values, ok \in BOOLEAN :
          /\ ok => Room
          /\ ListStep("listAddNodeTail", value, <<which>>,
                      Ret(listAddNodeTail(adl.h, adl[which], value, ok)), "none",
                      [Idle(adl) EXCEPT
                          !.h = listAddNodeTail(adl.h, adl[which], value, ok).h,
                          ![which] = listAddNodeTail(adl.h, adl[which], value, ok).list])

InsertNode ==
    /\ Quiet
    /\ \E i \in 1..adl.l.len, value \in Values, after \in BOOLEAN, ok \in BOOLEAN :
          /\ ok => Room
          /\ ListStep("listInsertNode", 0, <<>>,
                      Ret(listInsertNode(adl.h, adl.l, Nodes(adl.h, adl.l)[i], value,
                                         after, ok)), "none",
                      [Idle(adl) EXCEPT
                          !.h = listInsertNode(adl.h, adl.l, Nodes(adl.h, adl.l)[i],
                                               value, after, ok).h,
                          !.l = listInsertNode(adl.h, adl.l, Nodes(adl.h, adl.l)[i],
                                               value, after, ok).list])

DelNode ==
    /\ Quiet
    /\ \E i \in 1..adl.l.len :
          ListStep("listDelNode", 0, <<>>, "ok", "none",
                   [Idle(adl) EXCEPT
                       !.h = listDelNode(adl.h, adl.l, Nodes(adl.h, adl.l)[i]).h,
                       !.l = listDelNode(adl.h, adl.l, Nodes(adl.h, adl.l)[i]).list])

Rotate ==
    /\ Quiet
    /\ ListStep("listRotate", 0, <<>>, "ok", "none",
                [Idle(adl) EXCEPT !.h = listRotate(adl.h, adl.l).h,
                                  !.l = listRotate(adl.h, adl.l).list])

Join ==
    /\ Quiet
    /\ ListStep("listJoin", adl.o.len, <<>>, "ok", "none",
                [Idle(adl) EXCEPT !.h = listJoin(adl.h, adl.l, adl.o).h,
                                  !.l = listJoin(adl.h, adl.l, adl.o).l,
                                  !.o = listJoin(adl.h, adl.l, adl.o).o])

Empty ==
    /\ Quiet
    /\ ListStep("listEmpty", 0, <<>>, "ok", "none",
                [Idle(adl) EXCEPT !.h = listEmpty(adl.h, adl.l).h,
                                  !.l = listEmpty(adl.h, adl.l).list])

\* Nodes of l in the order an iterator of the direction visits them.
InOrder(direction) ==
    IF direction = AL_START_HEAD THEN Nodes(adl.h, adl.l)
    ELSE Reverse(Nodes(adl.h, adl.l))

\* listRewind(l, &iter) or listRewindTail(l, &iter)
Rewind ==
    /\ Quiet
    /\ \E direction \in {AL_START_HEAD, AL_START_TAIL} :
          ListStep(IF direction = AL_START_HEAD THEN "listRewind" ELSE "listRewindTail",
                   0, <<>>, "ok", "none",
                   [Idle(adl) EXCEPT
                       !.iter = IF direction = AL_START_HEAD THEN listRewind(adl.l)
                                ELSE listRewindTail(adl.l),
                       !.active = TRUE, !.snap = InOrder(direction)])

\* iter = listGetIterator(l, direction); NULL when the allocation fails.
GetIterator ==
    /\ Quiet
    /\ \E direction \in {AL_START_HEAD, AL_START_TAIL}, ok \in BOOLEAN :
          ListStep("listGetIterator", 0, <<>>, IF ok THEN "ok" ELSE "NULL", "none",
                   IF ok
                   THEN [Idle(adl) EXCEPT !.iter = listGetIterator(adl.l, direction),
                                          !.active = TRUE, !.snap = InOrder(direction)]
                   ELSE Idle(adl))

\* node = listNext(iter); the iteration ends when it returns NULL.
NextNode ==
    /\ adl.active /\ op.fault = "none"
    /\ ListStep("listNext", 0, <<>>,
                IF listNext(adl.h, adl.iter).ret = NIL THEN "NULL" ELSE "ok",
                listNext(adl.h, adl.iter).fault,
                [adl EXCEPT !.iter = listNext(adl.h, adl.iter).iter,
                            !.active = listNext(adl.h, adl.iter).ret # NIL,
                            !.seen = IF listNext(adl.h, adl.iter).ret # NIL
                                     THEN Append(adl.seen, listNext(adl.h, adl.iter).ret)
                                     ELSE adl.seen,
                            !.last = listNext(adl.h, adl.iter).ret])

\* listDelNode(l, node) of the node listNext() has just returned.
DelReturned ==
    /\ adl.active /\ op.fault = "none" /\ adl.last # NIL
    /\ ListStep("listDelNode(node)", 0, <<>>, "ok", "none",
                [adl EXCEPT !.h = listDelNode(adl.h, adl.l, adl.last).h,
                            !.l = listDelNode(adl.h, adl.l, adl.last).list,
                            !.last = NIL])

NextList ==
    \/ AddNodeHead \/ AddNodeTail \/ InsertNode \/ DelNode \/ Rotate \/ Join \/ Empty
    \/ Rewind \/ GetIterator \/ NextNode \/ DelReturned

SpecList == InitList /\ [][NextList]_vars

\* ------------------------------------------------------------- listDup runs
\* The list of the values vals, made by listAddNodeTail() on an empty list.
RECURSIVE Built(_)
Built(vals) ==
    IF vals = <<>> THEN LRes(EmptyHeap, listCreate, "list", <<>>)
    ELSE listAddNodeTail(Built(SubSeq(vals, 1, Len(vals) - 1)).h,
                         Built(SubSeq(vals, 1, Len(vals) - 1)).list,
                         vals[Len(vals)], TRUE)

\* The arguments of the one listDup() a run makes: the list l with its dup
\* and free methods set or not, the allocation that fails in op.n (0: none)
\* and the node for which the dup method returns NULL in op.data (0: none).
InitDup ==
    /\ s = NULL
    /\ base = <<>>
    /\ sent = <<>>
    /\ argv = NoArgs
    /\ \E vals \in SeqsUpTo(Values, MaxNodes), dup \in BOOLEAN, free \in BOOLEAN,
          fail \in 0..(MaxNodes + 1), dupfail \in 0..MaxNodes :
          /\ adl = [NoAdl EXCEPT !.h = Built(vals).h,
                                 !.l = [Built(vals).list EXCEPT !.dup = dup, !.free = free]]
          /\ op = [name |-> "init", n |-> fail, data |-> <<dupfail>>, ret |-> "ok",
                   fault |-> "none"]

\* copy = listDup(l)
DupList ==
    /\ op.name = "init"
    /\ ListStep("listDup", op.n, op.data,
                Ret(listDup(adl.h, adl.l, op.n, op.data[1])), "none",
                [adl EXCEPT !.h = listDup(adl.h, adl.l, op.n, op.data[1]).h,
                            !.copy = listDup(adl.h, adl.l, op.n, op.data[1]).copy,
                            !.made = listDup(adl.h, adl.l, op.n, op.data[1]).made,
                            !.freed = listDup(adl.h, adl.l, op.n, op.data[1]).freed])

\* listRelease(copy) of the copy listDup() has returned.
ReleaseCopy ==
    /\ op.name = "listDup" /\ op.ret = "ok"
    /\ ListStep("listRelease", adl.copy.len, <<>>, "ok", "none",
                [adl EXCEPT !.h = listRelease(adl.h, adl.copy).h,
                            !.copy = listCreate,
                            !.freed = listRelease(adl.h, adl.copy).freed])

NextDup == DupList \/ ReleaseCopy

SpecDup == InitDup /\ [][NextDup]_vars

\* ------------------------------------------------------------------ claims
Terminated(b) == Len(b.buf) >= b.len + 1 /\ b.buf[b.len + 1] = 0

\* C1: after any sequence of public buffer operations every live buffer has
\* length <= capacity, whatever its header class.
C1_LenWithinAlloc == IsBuf(s) => sdslen(s) <= sdsalloc(s)

\* A class 16 buffer whose length was just raised by sdsIncrLen.
C1_Witness ==
    /\ IsBuf(s) /\ s.type = SDS_TYPE_16
    /\ op.name = "sdsIncrLen" /\ op.n = 2 /\ op.fault = "none"
    /\ sdslen(s) = MaxLen

\* C2: after every public buffer operation that returns, the byte at index
\* length is zero, also when bytes before it are zero.
C2_Terminator ==
    (IsBuf(s) /\ op.fault \notin {"nullwrite", "nullderef"}) => Terminated(s)

\* sdscatfmt has appended a zero byte as content and then the terminator.
C2_Witness ==
    /\ IsBuf(s) /\ op.name = "sdscatfmt" /\ op.ret = "ok"
    /\ sdslen(s) = MaxLen /\ s.buf[sdslen(s)] = 0
    /\ Terminated(s)

\* C3: a successful sdsMakeRoomFor(s, n) leaves capacity - length >= n and
\* keeps the length and the content, for every class.
C3_MakeRoomFor ==
    [][(op'.name = "sdsMakeRoomFor" /\ op'.ret = "ok")
       => /\ sdsavail(s') >= op'.n
          /\ sdslen(s') = sdslen(s)
          /\ Content(s') = Content(s)]_vars

\* A buffer with content moved to class 16 by sdsMakeRoomFor.
C3_Witness ==
    /\ op.name = "sdsMakeRoomFor" /\ op.ret = "ok" /\ op.n = 128
    /\ s.type = SDS_TYPE_16 /\ sdslen(s) = MaxLen
    /\ sdsavail(s) >= 128

\* C4: through any run of appends (sdscatlen, or sdsMakeRoomFor, a direct
\* write and sdsIncrLen) the content is the starting content followed by all
\* the appended data and the length is the sum of their lengths.
C4_AppendsKept ==
    IsBuf(s) => /\ Content(s) = base \o sent
                /\ sdslen(s) = Len(base) + Len(sent)

\* Two bytes appended to a one-byte buffer, the last in class 32.
C4_Witness ==
    /\ IsBuf(s) /\ s.type = SDS_TYPE_32
    /\ Len(base) = 1 /\ Len(sent) = 2
    /\ op.name = "sdscatlen" /\ op.ret = "ok" /\ op.n = 1

\* C5: sdsnewlen(b, n) returns a buffer of length n and capacity n whose
\* content is b, for every b of n bytes.
C5_NewLen ==
    (op.name = "sdsnewlen" /\ op.ret = "ok")
       => /\ sdslen(s) = op.n
          /\ Content(s) = op.data
          /\ sdsalloc(s) = op.n

\* Created from "A\0A".
C5_Witness ==
    /\ op.name = "sdsnewlen" /\ op.ret = "ok"
    /\ op.data = <<65, 0, 65>> /\ sdslen(s) = 3

\* C6: sdsIncrLen(s, incr) fails its assertion exactly when incr > 0 and
\* capacity - length < incr, or incr < 0 and length < -incr; otherwise the
\* length becomes length + incr and a zero byte stands at the new length.
C6_IncrLen ==
    [][op'.name = "sdsIncrLen"
       => /\ (op'.fault = "assert")
               <=> \/ (op'.n > 0 /\ sdsalloc(s) - sdslen(s) < op'.n)
                   \/ (op'.n < 0 /\ sdslen(s) < -op'.n)
          /\ op'.fault = "none"
               => (sdslen(s') = sdslen(s) + op'.n /\ Terminated(s'))]_vars

\* C7: when the allocator fails in sdsMakeRoomFor, sdscatlen, sdscpylen or
\* sdsgrowzero the call returns NULL and the buffer passed in is still
\* allocated, with its class, length, capacity and bytes unchanged.
C7_FailureKeeps ==
    [][(op'.ret = "NULL"
        /\ op'.name \in {"sdsMakeRoomFor", "sdscatlen", "sdscpylen", "sdsgrowzero"})
       => (s' = s /\ IsBuf(s') /\ op'.fault = "none")]_vars

\* sdscatlen has failed on a class 5 buffer, which must change class to grow.
C7_Witness ==
    /\ op.name = "sdscatlen" /\ op.ret = "NULL" /\ op.n > 0
    /\ IsBuf(s) /\ s.type = SDS_TYPE_5 /\ sdslen(s) > 0

\* C8: an operation whose allocation fails returns NULL and never reads or
\* writes through the NULL it got.
C8_NoNullAccess ==
    op.name \in {"sdsnewlen", "sdsnewlen(NULL)", "sdsnewlen(SDS_NOINIT)", "sdscatfmt"}
       => op.fault \notin {"nullwrite", "nullderef"}

\* C9: sdssplitargs on the text of sdscatrepr(empty, b, len(b)) succeeds
\* with exactly one token, whose length and bytes are those of b, for every
\* byte sequence b.
C9_ReprRoundTrip ==
    (op.name = "sdssplitargs(sdscatrepr)" /\ ~argv.failed)
       => /\ argv.ret = "vector" /\ argv.fault = "none"
          /\ argv.argc = 1
          /\ sdslen(argv.vector[1]) = Len(op.data)
          /\ Content(argv.vector[1]) = op.data

\* The bytes 0xff and '"' have come back from "\xff\"", quotes included.
C9_Witness ==
    /\ op.name = "sdssplitargs(sdscatrepr)" /\ ~argv.failed
    /\ op.data = <<255, 34>>
    /\ Content(s) = <<34, 92, 120, 102, 102, 92, 34, 34>>
    /\ argv.argc = 1 /\ Content(argv.vector[1]) = <<255, 34>>

\* Whether line has a quoted section without its closing quote, or a closing
\* quote followed by something that is neither white space nor the end.
\* Inside double quotes a backslash takes the next character with it, inside
\* single quotes it does so for a single quote only.
RECURSIVE BadQuotes(_, _, _)
BadQuotes(line, i, q) ==
    IF i > Len(line) THEN q # 0
    ELSE IF q = 0
    THEN BadQuotes(line, i + 1, IF line[i] \in {34, 39} THEN line[i] ELSE 0)
    ELSE IF line[i] = 92 /\ i < Len(line) /\ (q = 34 \/ line[i + 1] = 39)
    THEN BadQuotes(line, i + 2, q)
    ELSE IF line[i] = q
    THEN (i < Len(line) /\ ~isspace(line[i + 1])) \/ BadQuotes(line, i + 1, 0)
    ELSE BadQuotes(line, i + 1, q)

\* C10: without allocation failure sdssplitargs returns NULL with argc = 0
\* exactly when the line has an unterminated quoted section or a closing
\* quote followed by a character that is neither white space nor the end;
\* every other line yields a token array.
C10_ParseFailure ==
    (op.name = "sdssplitargs" /\ ~argv.failed)
       => /\ argv.fault = "none"
          /\ argv.ret \in {"vector", "NULL"}
          /\ (argv.ret = "NULL" /\ argv.argc = 0) <=> BadQuotes(op.data, 1, 0)

\* "a"a is refused.
C10_Witness ==
    /\ op.name = "sdssplitargs" /\ ~argv.failed
    /\ op.data = <<34, 97, 34, 97>>
    /\ argv.ret = "NULL" /\ argv.argc = 0

\* A line of nothing but white space, the empty line included.
Blank(line) == \A i \in 1..Len(line) : isspace(line[i])

\* C11: the caller can tell the three outcomes of sdssplitargs apart: a blank
\* line gives a vector with argc = 0, a parse failure gives NULL with
\* argc = 0, and NULL with argc = 0 is returned for a parse failure only,
\* never for a failed allocation or for a line without tokens.
C11_OutcomesDistinct ==
    op.name = "sdssplitargs"
       => /\ (Blank(op.data) /\ ~argv.failed) => (argv.ret = "vector" /\ argv.argc = 0)
          /\ (argv.ret = "NULL" /\ argv.argc = 0) => (~argv.failed /\ BadQuotes(op.data, 1, 0))

\* C12: when sdssplitargs returns a parse failure, the tokens completed
\* before, the token under construction and the token array have each been
\* released exactly once: no block of the call is live and none was released
\* twice.
C12_ParseFailureReleases ==
    (op.name = "sdssplitargs" /\ ~argv.failed /\ argv.ret = "NULL")
       => (argv.live = {} /\ ~argv.twice)

\* The line a a" is refused at its open quote, with the token a completed
\* and a second under construction.
C12_Witness ==
    /\ op.name = "sdssplitargs" /\ ~argv.failed /\ argv.ret = "NULL"
    /\ op.data = <<97, 32, 97, 34>>
    /\ argv.live = {} /\ ~argv.twice

\* The value of a hex digit and the byte an escape letter stands for.
RefHex(c) == IF c <= 57 THEN c - 48 ELSE IF c <= 70 THEN c - 55 ELSE c - 87

RefIsHex(c) == c \in (48..57) \cup (65..70) \cup (97..102)

RefControl(c) ==
    IF c = 110 THEN 10 ELSE IF c = 114 THEN 13 ELSE IF c = 116 THEN 9
    ELSE IF c = 98 THEN 8 ELSE IF c = 97 THEN 7 ELSE c

\* The tokens of line by the three-state machine: q is 0 outside quotes, or
\* the quote character of the section the scan is in; cur is the token being
\* decoded, if begun; toks are the tokens before it.
RECURSIVE RefTokens(_, _, _, _, _, _)
RefTokens(line, i, q, cur, begun, toks) ==
    IF i > Len(line) THEN (IF begun THEN Append(toks, cur) ELSE toks)
    ELSE IF q = 0
    THEN IF line[i] \in {32, 9, 10, 13}
         THEN RefTokens(line, i + 1, 0, <<>>, FALSE,
                        IF begun THEN Append(toks, cur) ELSE toks)
         ELSE IF line[i] \in {34, 39} THEN RefTokens(line, i + 1, line[i], cur, TRUE, toks)
         ELSE RefTokens(line, i + 1, 0, Append(cur, line[i]), TRUE, toks)
    ELSE IF line[i] = q THEN RefTokens(line, i + 1, 0, <<>>, FALSE, Append(toks, cur))
    ELSE IF q = 34 /\ line[i] = 92 /\ i + 3 <= Len(line) /\ line[i + 1] = 120
            /\ RefIsHex(line[i + 2]) /\ RefIsHex(line[i + 3])
    THEN RefTokens(line, i + 4, q,
                   Append(cur, 16 * RefHex(line[i + 2]) + RefHex(line[i + 3])), TRUE, toks)
    ELSE IF q = 34 /\ line[i] = 92 /\ i < Len(line)
    THEN RefTokens(line, i + 2, q, Append(cur, RefControl(line[i + 1])), TRUE, toks)
    ELSE IF q = 39 /\ line[i] = 92 /\ i < Len(line) /\ line[i + 1] = 39
    THEN RefTokens(line, i + 2, q, Append(cur, 39), TRUE, toks)
    ELSE RefTokens(line, i + 1, q, Append(cur, line[i]), TRUE, toks)

Member(c, cset) == \E i \in 1..Len(cset) : cset[i] = c

MaxOf(S) == CHOOSE x \in S : \A y \in S : y <= x

\* b without its longest prefix of members of cset, and then without the
\* longest suffix of members of what is left.
RefTrim(b, cset) ==
    LET p == MaxOf({k \in 0..Len(b) : \A i \in 1..k : Member(b[i], cset)})
        rest == SubSeq(b, p + 1, Len(b))
        q == MaxOf({k \in 0..Len(rest) :
                       \A i \in (Len(rest) - k + 1)..Len(rest) : Member(rest[i], cset)})
    IN  SubSeq(rest, 1, Len(rest) - q)

\* C14: sdstrim(s, c) leaves s without exactly its longest prefix and then
\* its longest suffix of bytes that are members of c; a byte that is not a
\* member of c is never removed.
C14_TrimExact ==
    [][op'.name = "sdstrim" => Content(s') = RefTrim(Content(s), op'.data)]_vars

\* C15: sdstrim is idempotent: a second sdstrim with the same charset leaves
\* the length and the bytes the first one produced.
C15_TrimIdempotent ==
    [][op'.name = "sdstrim"
          => /\ sdslen(sdstrim(s', op'.data).ret) = sdslen(s')
             /\ Content(sdstrim(s', op'.data).ret) = Content(s')]_vars

\* A trim has removed bytes and left some.
C15_Witness == op.name = "sdstrim" /\ op.n > sdslen(s) /\ sdslen(s) > 0

\* A negative index counted from the end, not below 0.
RefIndex(L, i) == IF i < 0 THEN Max(L + i, 0) ELSE i

\* The bytes of b, of length L, that the range start..end leaves.
RefRange(b, L, start, end) ==
    IF RefIndex(L, start) > RefIndex(L, end) \/ RefIndex(L, start) >= L THEN <<>>
    ELSE SubSeq(b, RefIndex(L, start) + 1, Min(RefIndex(L, end), L - 1) + 1)

\* What sdsrange(s, start, end) leaves of the bytes and the header class.
RangeBytes(b, a, start, end) ==
    /\ sdslen(b) = 0 => a = b
    /\ Content(a) = RefRange(Content(b), sdslen(b), start, end)
    /\ sdslen(a) = Len(RefRange(Content(b), sdslen(b), start, end))
    /\ sdslen(a) <= sdslen(b)
    /\ a.type = b.type

\* C16 as stated: sdsrange leaves the bytes start..min(end, L-1) after
\* replacing each negative index i by max(L+i, 0), or the empty string if
\* start > end or start >= L; the result is never longer than L, the capacity
\* and the header class are unchanged, and L = 0 leaves the buffer unchanged.
C16_Range ==
    [][op'.name = "sdsrange"
          => /\ RangeBytes(s, s', op'.n, op'.data[1])
             /\ sdsalloc(s') = sdsalloc(s)]_vars

\* C16 amended: the same bytes, length and header class; the allocation is
\* unchanged, and the capacity is unchanged in the classes that store one,
\* while the capacity of a class 5 buffer is its new length.
C16_RangeAmended ==
    [][op'.name = "sdsrange"
          => /\ RangeBytes(s, s', op'.n, op'.data[1])
             /\ s'.blk = s.blk
             /\ s.type # SDS_TYPE_5 => sdsalloc(s') = sdsalloc(s)
             /\ s.type = SDS_TYPE_5 => sdsalloc(s') = sdslen(s')]_vars

\* sdsrange(s, -1, -1) has left the last byte of a longer buffer.
C16_Witness ==
    /\ op.name = "sdsrange" /\ op.n = -1 /\ op.data[1] = -1 /\ op.data[2] > 1
    /\ sdslen(s) = 1

\* The offsets at which sep occurs in str.
Occurs(str, sep) ==
    {j \in 0..(Len(str) - Len(sep)) : SubSeq(str, j + 1, j + Len(sep)) = sep}

\* The segments of str between the leftmost non-overlapping occurrences of sep.
RECURSIVE RefSegments(_, _)
RefSegments(str, sep) ==
    IF Occurs(str, sep) = {} THEN <<str>>
    ELSE LET j == CHOOSE x \in Occurs(str, sep) : \A y \in Occurs(str, sep) : x <= y
         IN  <<SubSeq(str, 1, j)>>
                \o RefSegments(SubSeq(str, j + Len(sep) + 1, Len(str)), sep)

\* C17: sdssplitlen cuts s at each leftmost non-overlapping occurrence of sep
\* and returns the segments in order, count = occurrences + 1 for non-empty
\* s, and sdsjoinsds of the tokens with sep reproduces s byte for byte.
C17_SplitJoin ==
    (op.name = "sdsjoinsds" /\ op.ret = "ok" /\ op.fault = "none")
       => /\ argv.ret = "tokens"
          /\ op.data # <<>> => argv.count = Len(RefSegments(op.data, sent))
          /\ argv.count = Len(argv.tokens)
          /\ \A k \in 1..argv.count :
                /\ op.data # <<>> => Content(argv.tokens[k]) = RefSegments(op.data, sent)[k]
                /\ sdslen(argv.tokens[k]) = Len(Content(argv.tokens[k]))
          /\ Content(s) = op.data /\ sdslen(s) = Len(op.data)

\* ",,\0,," cut at the two-byte separator ",," and joined again.
C17_Witness ==
    /\ op.name = "sdsjoinsds" /\ op.ret = "ok" /\ op.fault = "none"
    /\ op.data = <<44, 44, 0, 44, 44>> /\ sent = <<44, 44>>
    /\ argv.count = 3 /\ Content(s) = op.data

\* C18: sdssplitlen returns NULL on out of memory, on a zero length input
\* string, and on a zero length separator.
C18_SplitNull ==
    (op.name = "sdssplitlen" /\ (argv.failed \/ Len(op.data) = 0 \/ Len(sent) = 0))
       => argv.ret = "NULL"

Sign(x) == IF x < 0 THEN -1 ELSE IF x > 0 THEN 1 ELSE 0

\* a before b in the lexicographic order of unsigned bytes, a proper prefix
\* before the longer string.
LexLess(a, b) ==
    \E k \in 1..Len(b) :
       /\ \A i \in 1..(k - 1) : i <= Len(a) /\ a[i] = b[i]
       /\ k = Len(a) + 1 \/ (k <= Len(a) /\ a[k] < b[k])

\* C19: sdscmp(a, b) is negative, zero or positive as a is less than, equal
\* to or greater than b in the lexicographic order of unsigned bytes; zero
\* only for identical strings; sign(sdscmp(a, b)) = -sign(sdscmp(b, a)).
C19_CmpOrder ==
    op.name = "sdscmp"
       => /\ Sign(argv.cmp) = (IF LexLess(op.data, sent) THEN -1
                               ELSE IF LexLess(sent, op.data) THEN 1 ELSE 0)
          /\ argv.cmp = 0 <=> op.data = sent
          /\ Sign(argv.cmp) = -Sign(argv.rev)

\* 0xff against ',': the larger unsigned byte decides.
C19_Witness ==
    /\ op.name = "sdscmp" /\ op.data = <<44, 255>> /\ sent = <<44, 44>>
    /\ argv.cmp > 0 /\ argv.rev < 0

\* The decimal digits of a natural number.
RECURSIVE RefDigits(_)
RefDigits(n) == IF n < 10 THEN <<48 + n>> ELSE RefDigits(n \div 10) \o <<48 + (n % 10)>>

RefDecimal(x) == IF x < 0 THEN <<45>> \o RefDigits(-x) ELSE RefDigits(x)

\* The bytes of a text argument: those before its first zero byte.
RefText(t) == SubSeq(t, 1, (CHOOSE i \in 1..Len(t) : t[i] = 0 /\ \A k \in 1..(i - 1) : t[k] # 0) - 1)

\* What the format appends, in format order.
RECURSIVE RefFormat(_, _)
RefFormat(fmt, args) ==
    IF fmt = <<>> THEN <<>>
    ELSE IF fmt[1] # 37 THEN <<fmt[1]>> \o RefFormat(Tail(fmt), args)
    ELSE IF fmt[2] = 115
    THEN RefText(Head(args)) \o RefFormat(Tail(Tail(fmt)), Tail(args))
    ELSE IF fmt[2] = 83
    THEN Content(Head(args)) \o RefFormat(Tail(Tail(fmt)), Tail(args))
    ELSE IF fmt[2] \in {105, 73, 117, 85}
    THEN RefDecimal(Head(args)) \o RefFormat(Tail(Tail(fmt)), Tail(args))
    ELSE <<fmt[2]>> \o RefFormat(Tail(Tail(fmt)), args)

\* C20: when no allocation fails, sdscatfmt leaves the prior content intact
\* and appends what the format says: literal bytes, %s text, %S buffer bytes,
\* %i/%I and %u/%U decimal digits (the minimum and maximum values included),
\* '%' for %%, the character itself for % and any other character; the final
\* length is the prior length plus the number of bytes appended.
C20_CatFmt ==
    (op.name = "sdscatfmt" /\ op.fault # "nullderef")
       => /\ op.ret = "ok" /\ op.fault = "none"
          /\ Content(s) = base \o RefFormat(op.data, argv.args)
          /\ sdslen(s) = Len(base) + Len(RefFormat(op.data, argv.args))

\* What a successful sdscpylen(b, data, n) leaves apart from the capacity:
\* length n, the bytes of data, and a new block only when n exceeds the
\* capacity before.
CpyBytes(b, a, data, n) ==
    /\ sdslen(a) = n
    /\ Content(a) = data
    /\ a.blk # b.blk => n > sdsalloc(b)
    /\ sdscpylen(b, data, n, TRUE).arg = FREED => n > sdsalloc(b)

\* C21 as stated: a successful sdscpylen(s, data, n) yields length n and the
\* bytes of data, a capacity at least the capacity before, and reallocates
\* only when n exceeds the prior capacity.
C21_CpyLen ==
    [][(op'.name = "sdscpylen" /\ op'.ret = "ok")
          => /\ CpyBytes(s, s', op'.data, op'.n)
             /\ sdsalloc(s') >= sdsalloc(s)]_vars

\* C21 amended: the same length, bytes and reallocation; the block is never
\* smaller, and the capacity is never smaller in the classes that store one,
\* while the capacity of a class 5 buffer that is reused is its new length.
C21_CpyLenAmended ==
    [][(op'.name = "sdscpylen" /\ op'.ret = "ok")
          => /\ CpyBytes(s, s', op'.data, op'.n)
             /\ s'.blk >= s.blk
             /\ s.type # SDS_TYPE_5 => sdsalloc(s') >= sdsalloc(s)
             /\ (s.type = SDS_TYPE_5 /\ s'.type = SDS_TYPE_5) => sdsalloc(s') = op'.n]_vars

\* A copy of MaxData bytes that had to grow a class 8 buffer.
C21_Witness ==
    /\ op.name = "sdscpylen" /\ op.ret = "ok" /\ op.n = MaxData
    /\ Content(s) = op.data /\ s.type = SDS_TYPE_8 /\ sdsalloc(s) = 2 * MaxData

\* The capacity sdsMakeRoomFor() records when it grows for len + addlen.
RefGrown(len, addlen) ==
    IF len + addlen < 1048576 THEN 2 * (len + addlen) ELSE len + addlen + 1048576

\* C25: when sdsMakeRoomFor(s, extra) has to grow, the capacity afterwards is
\* 2 * (length + extra) below the 1 MiB ceiling and length + extra + 1 MiB
\* otherwise; when there is room the capacity is unchanged and the same
\* handle is returned.
C25_GrowthPolicy ==
    [][(op'.name = "sdsMakeRoomFor" /\ op'.ret = "ok")
          => IF sdsavail(s) < op'.n
             THEN sdsalloc(s') = RefGrown(sdslen(s), op'.n)
             ELSE sdsalloc(s') = sdsalloc(s) /\ s' = s]_vars

\* A buffer with content grown by 1 MiB beyond the ceiling.
C25_Witness ==
    /\ op.name = "sdsMakeRoomFor" /\ op.ret = "ok" /\ op.n = 1048576
    /\ sdslen(s) > 0 /\ sdsalloc(s) = sdslen(s) + 1048576 + 1048576

\* The smallest class that stores a capacity, class 8 where class 5 would do.
RefClass(cap) ==
    IF cap < 256 THEN SDS_TYPE_8 ELSE IF cap < 65536 THEN SDS_TYPE_16 ELSE SDS_TYPE_32

\* C26: after an sdsMakeRoomFor that grows, the class is the smallest one
\* that represents the new capacity, never class 5 (also when the class
\* before was a larger one), and an empty buffer made by sdsnewlen is class 8.
C26_GrowthClass ==
    [][/\ (op'.name = "sdsMakeRoomFor" /\ op'.ret = "ok" /\ sdsavail(s) < op'.n)
          => (s'.type = RefClass(sdsalloc(s')) /\ s'.type # SDS_TYPE_5)
       /\ (op'.name \in {"sdsnewlen", "sdsnewlen(NULL)", "sdsnewlen(SDS_NOINIT)"}
           /\ op'.ret = "ok" /\ op'.n = 0)
          => s'.type = SDS_TYPE_8]_vars

\* A growth by 32768 has given a class 32 buffer.
C26_Witness ==
    /\ op.name = "sdsMakeRoomFor" /\ op.ret = "ok" /\ op.n = 32768
    /\ s.type = SDS_TYPE_32 /\ sdsalloc(s) = 2 * (sdslen(s) + 32768)

\* C28: sdscatfmt reads the format only up to its terminating zero byte,
\* also for a format that ends with a lone '%', and what it writes ends
\* inside the capacity.
C28_FmtWithinFormat ==
    (op.name = "sdscatfmt" /\ op.fault # "nullderef" /\ IsBuf(s))
       => (op.fault # "overread" /\ sdslen(s) <= sdsalloc(s))

\* C30: while no assertion has failed, the block of the live buffer holds
\* header_size(class) + capacity + 1 bytes and length <= capacity, class 5
\* buffers (capacity = length) included.
C30_BlockHoldsContent ==
    (IsBuf(s) /\ op.fault # "assert")
       => (s.blk >= sdsHdrSize(s.type) + sdsalloc(s) + 1 /\ sdslen(s) <= sdsalloc(s))

\* The values of the nodes of a list from head to tail.
NodeValues(h, list) == [i \in 1..Len(Nodes(h, list)) |-> h[Nodes(h, list)[i]].value]

\* C22: when the node allocation fails, listAddNodeHead and listAddNodeTail
\* return NULL and leave the list and every node unaltered; on success they
\* return the list, len has grown by one, the new node holds the value and
\* is the first (respectively last) node, and the existing nodes keep their
\* order and values.
C22_AddNode ==
    [][op'.name \in {"listAddNodeHead", "listAddNodeTail"}
          => IF op'.ret = "NULL"
             THEN adl'.h = adl.h /\ adl'[op'.data[1]] = adl[op'.data[1]]
             ELSE /\ adl'[op'.data[1]].len = adl[op'.data[1]].len + 1
                  /\ Len(Nodes(adl'.h, adl'[op'.data[1]])) = adl'[op'.data[1]].len
                  /\ IF op'.name = "listAddNodeHead"
                     THEN /\ Tail(Nodes(adl'.h, adl'[op'.data[1]]))
                                = Nodes(adl.h, adl[op'.data[1]])
                          /\ NodeValues(adl'.h, adl'[op'.data[1]])
                                = <<op'.n>> \o NodeValues(adl.h, adl[op'.data[1]])
                          /\ adl'[op'.data[1]].head
                                = Head(Nodes(adl'.h, adl'[op'.data[1]]))
                     ELSE /\ Nodes(adl'.h, adl'[op'.data[1]])
                                = Append(Nodes(adl.h, adl[op'.data[1]]),
                                         adl'[op'.data[1]].tail)
                          /\ NodeValues(adl'.h, adl'[op'.data[1]])
                                = Append(NodeValues(adl.h, adl[op'.data[1]]), op'.n)
                  /\ ~adl.h[IF op'.name = "listAddNodeHead"
                            THEN adl'[op'.data[1]].head
                            ELSE adl'[op'.data[1]].tail].live]_vars

\* The value 2 added at the tail of l behind two nodes holding 1.
C22_Witness ==
    /\ op.name = "listAddNodeTail" /\ op.ret = "ok" /\ op.n = 2 /\ op.data = <<"l">>
    /\ NodeValues(adl.h, adl.l) = <<1, 1, 2>>

\* C24: while listNext is interleaved with listDelNode of the node it has
\* just returned, the nodes returned are those the list had when the iterator
\* was set, in the order of its direction, each once and none of them a freed
\* node, and listNext returns NULL when all have been returned.
C24_IterateAndDelete ==
    /\ op.fault # "freed"
    /\ op.name \in {"listNext", "listDelNode(node)"}
          => /\ Len(adl.seen) <= Len(adl.snap)
             /\ adl.seen = SubSeq(adl.snap, 1, Len(adl.seen))
             /\ (op.name = "listNext" /\ op.ret = "NULL") <=> ~adl.active
             /\ ~adl.active => adl.seen = adl.snap

\* A tail-to-head iteration has returned all MaxNodes nodes while each was
\* deleted after it was returned.
C24_Witness ==
    /\ op.name = "listNext" /\ op.ret = "NULL" /\ adl.iter.direction = AL_START_TAIL
    /\ Len(adl.seen) = MaxNodes /\ adl.seen = adl.snap /\ adl.l.len = 0

\* A list is well formed: len nodes from head by next, head, tail and len
\* empty together, the ends closed, prev the inverse of next, and the walk
\* from tail by prev the reverse of the walk from head by next.
WellFormed(h, list) ==
    /\ Len(Nodes(h, list)) = list.len
    /\ (list.head = NIL) = (list.tail = NIL)
    /\ (list.head = NIL) = (list.len = 0)
    /\ list.head # NIL => (h[list.head].prev = NIL /\ h[list.tail].next = NIL)
    /\ \A i \in 1..Len(Nodes(h, list)) :
          h[Nodes(h, list)[i]].next # NIL
             => h[h[Nodes(h, list)[i]].next].prev = Nodes(h, list)[i]
    /\ WalkPrev(h, list.tail, 2 * MaxNodes + 1) = Reverse(Nodes(h, list))

\* C27: after any sequence of listAddNodeHead, listAddNodeTail,
\* listInsertNode, listDelNode, listRotate, listJoin and listEmpty the lists
\* are well formed.
C27_WellFormed == WellFormed(adl.h, adl.l) /\ WellFormed(adl.h, adl.o)

\* l holds MaxNodes nodes after a listJoin of two lists with nodes.
C27_Witness ==
    /\ op.name = "listJoin" /\ op.n > 0 /\ adl.l.len = MaxNodes /\ op.n < MaxNodes
    /\ adl.o.len = 0 /\ WellFormed(adl.h, adl.l)

\* Whether the sequence q holds x.
Holds(q, x) == \E i \in 1..Len(q) : q[i] = x

\* C23: listDup never modifies the original list, on success and on failure:
\* the list struct, its nodes and the values they hold are as before and no
\* value of the original was released; on success the copy has the same
\* length and methods and the values in the same order (made by the dup
\* method when one is set, the same pointers otherwise); when an allocation
\* fails or the dup method returns NULL, listDup returns NULL.
C23_DupKeepsOriginal ==
    [][op'.name = "listDup"
          => /\ adl'.l = adl.l
             /\ Nodes(adl'.h, adl'.l) = Nodes(adl.h, adl.l)
             /\ \A n \in NodeIds : adl.h[n].live => adl'.h[n] = adl.h[n]
             /\ \A i \in 1..adl.l.len : ~Holds(adl'.freed, NodeValues(adl.h, adl.l)[i])
             /\ op'.ret = "ok"
                   => /\ adl'.copy.len = adl.l.len
                      /\ adl'.copy.dup = adl.l.dup /\ adl'.copy.free = adl.l.free
                      /\ adl'.copy.match = adl.l.match
                      /\ Len(Nodes(adl'.h, adl'.copy)) = adl.l.len
                      /\ \A i \in 1..adl.l.len :
                            NodeValues(adl'.h, adl'.copy)[i]
                               = IF adl.l.dup
                                 THEN DupValue(NodeValues(adl.h, adl.l)[i], i)
                                 ELSE NodeValues(adl.h, adl.l)[i]
             /\ (op'.n \in 1..(adl.l.len + 1)
                 \/ (adl.l.dup /\ op'.data[1] \in 1..adl.l.len))
                   => op'.ret = "NULL"]_vars

\* C29: when listDup fails on a list with both dup and free methods set,
\* every node it allocated and every value its dup method made has been
\* released when NULL is returned.
C29_DupFailureReleases ==
    (op.name = "listDup" /\ op.ret = "NULL" /\ adl.l.dup /\ adl.l.free)
       => /\ \A v \in adl.made : Holds(adl.freed, v)
          /\ \A n \in NodeIds : adl.h[n].live => Holds(Nodes(adl.h, adl.l), n)

====
